---- MODULE Spec2Model ----
(***************************************************************************)
(* Voice-of-customer discovery pipeline of content-finder                  *)
(* (backend/intelligence): processed-post history, Reddit collection,      *)
(* relevance scoring, Google Trends lookups and the run_voc_discovery      *)
(* orchestrator, each modelled from its source as a state machine.         *)
(*                                                                         *)
(* The module holds one specification per subsystem.  Every specification  *)
(* ranges over the same variables; the variables of the subsystems a       *)
(* specification does not exercise keep their initial value.               *)
(***************************************************************************)
EXTENDS Integers, Sequences, FiniteSets, Bags, TLC

VARIABLES
    \* ---- processed-post history (voc_discovery globals, RedditHistoryStore)
    hImpl,      \* which history implementation the deployment calls
    fsClient,   \* TRUE iff firestore.Client() could be constructed
    store,      \* Firestore: segment -> ids of the documents under .../posts
    dCache,     \* voc_discovery._local_dedupe_cache
    hKeys,      \* keys present in RedditHistoryStore._cache
    hCache,     \* RedditHistoryStore._cache (value {} where the key is absent)
    marked,     \* history: ids for which _mark_posts_processed has returned
    ret,        \* the last call of the history API and what it returned
    \* ---- Reddit collection (fetch_reddit_posts, RedditDataCollector.fetch_posts)
    fpc,          \* "idle", "loop" (inside the subreddit loop) or "done" (returned)
    filters,      \* RedditFilters parsed from the segment configuration
    fSub,         \* index of the next subreddit of the loop
    processedIds, \* processed_ids, the set the fetch loaded when it started
    curated,      \* curated_posts / curated, the candidates
    fWarnings,    \* warnings: the subreddits whose request failed, in order
    fSeen,        \* history: the raw posts the listings of this fetch carried
    handled,      \* history: ids earlier fetches of the segment returned
    \* filter_high_value_posts (voc_synthesis.py)
    flCalled,     \* a call of filter_high_value_posts has returned
    flPosts,      \* posts, the caller's list when the call was made
    flPostsAfter, \* the caller's list when the call has returned
    flMin,        \* min_score, in tenths
    flAccepted,   \* accepted
    flRejected,   \* rejected
    \* batch pre-scoring (voc_discovery.py, voc_synthesis.py)
    psOp,         \* which implementation has returned: "none" before the call
    psPosts,      \* posts: the id of each input post, 0 for a post without id
    psResp,       \* what the model call gives for the batch
    psScored,     \* scored_posts / all_scored_posts
    psRejectedLow,\* rejected_low_scores (voc_discovery)
    psWarnings,   \* warnings (voc_synthesis)
    psRaised,     \* the call raised instead of returning
    \* fetch_google_trends (voc_trends.py)
    tpc,          \* "idle", "attempt" (in the retry loop), "done", "raised"
    tKeywords,    \* primary_keywords
    tKw,          \* position of the keyword being looked up
    tAttempt,     \* attempt, the retry loop's counter
    tDelay,       \* retry_delay, in seconds
    tLog,         \* history: per keyword, the outcome of each attempt
    tSleeps,      \* history: per keyword, the seconds of each time.sleep
    tTrends,      \* curated_trends
    tWarnings,    \* warnings
    \* run_voc_discovery (voc_discovery.py)
    rpc,          \* "config", "config_error" (the load raised), "reddit",
                  \* "enrich", "trends", "queries", "done", "raised"
    rCfg,         \* the merged segment_config and the environment of the run
    rTop,         \* fetched_reddit_posts: the ids of the posts to enrich
    rAt,          \* position in the loop over posts or over keywords
    rRedditPosts, \* results["reddit_posts"]
    rLowScore,    \* results["reddit_posts_low_score"]
    rTrends,      \* results["google_trends"]
    rQueries,     \* results["curated_queries"]
    rWarnings,    \* results["warnings"]
    rFailures,    \* history: the failures that happened, in order
    \* the override merge of run_voc_discovery (voc_discovery.py)
    mpc,          \* "start" or "merged"
    mBase,        \* base_config
    mOverride,    \* the segment_config argument
    mMerged,      \* segment_config after the merge
    \* generate_curated_queries (voc_discovery.py, voc_synthesis.py) and the
    \* generate-queries stage (api/intelligence_stages.py)
    qpc,          \* "start" or "returned"
    qCall,        \* the entry point called: "discovery", "synthesis", "stage"
    qClient,      \* GEMINI_API_KEY is configured
    qPosts,       \* analyzed_posts / filtered_posts: each post's ai_analysis
    qTrends,      \* trends_data / trends: whether each signal has a query
    qAnswer,      \* what the prompt load and the model call give
    qName,        \* stage: the payload carries segment_name
    qConfigOk,    \* stage: load_segment_config returns
    qSynth,       \* stage: the function bound to generate_curated_queries
    qFake,        \* stage: the pair a test double returns when it returns
    qResult,      \* what generate_curated_queries returned
    qResp,        \* stage: the HTTP response
    \* RedditDataCollector.enrich_post (voc_reddit.py) and
    \* get_post_details_and_score (voc_discovery.py)
    epc,          \* "start" or "returned"
    eImpl,        \* "reddit" (enrich_post) or "discovery"
    eApiKey,      \* SCRAPECREATORS_API_KEY is configured
    eGemini,      \* GEMINI_API_KEY is configured
    eUrl,         \* the post has a url
    eComments,    \* the comments request: "ok" or "fails"
    eOutput,      \* what the prompt load and the model call give
    ePost,        \* the caller's post after the call: its ai_analysis
    eResult,      \* the returned post's ai_analysis, the warnings
    \* pre_score_posts (voc_synthesis.py): the worker pool
    wpc,          \* "collecting" or "returned"
    wWorkers,     \* max_workers
    wPosts,       \* the input posts, by id
    wFuture,      \* per input position, the state of its future
    wOrder,       \* the input positions in the order as_completed yields them
    wScored,      \* scored_posts
    wWarnings,    \* warnings
    \* concurrent callers of the history (both implementations)
    cImpl,        \* "discovery" or "store"
    cClient,      \* a Firestore client is configured
    cPrior,       \* the segment's history before the callers start
    cDocs,        \* the segment's documents in Firestore
    cCache,       \* the cache entry of the segment: a set object, 0 when absent
    cHeap,        \* the set objects
    cThread,      \* per caller: its call, its position and its locals
    \* the batch commit of a mark
    bpc,          \* "start" or "returned"
    bImpl,        \* "discovery" or "store"
    bClient,      \* a Firestore client is configured
    bIds,         \* the number of distinct non-empty ids to mark
    bCommits,     \* the number of documents of each batch.commit(), in order
    \* the payload normalisation of a listing response
    nImpl,        \* "discovery" or "store"
    nShape,       \* the shape of the response body
    nListing,     \* the posts the body carries
    nPosts,       \* the raw posts read from it, once the body was read
    \* the session endpoints (api/intelligence/sessions.py, api/intelligence.py)
    sImpl,        \* "sessions" or "intelligence"
    sStatus,      \* session["status"]
    sQueries,     \* per query of the session, its "selected"
    sSources,     \* per source of searchResults, its "selected"
    sResp         \* the last response: the endpoint and the HTTP status

histVars == <<hImpl, fsClient, store, dCache, hKeys, hCache, marked, ret>>
fetchVars == <<fpc, filters, fSub, processedIds, curated, fWarnings, fSeen, handled>>

filterVars == <<flCalled, flPosts, flPostsAfter, flMin, flAccepted, flRejected>>

prescoreVars == <<psOp, psPosts, psResp, psScored, psRejectedLow, psWarnings, psRaised>>

trendsVars == <<tpc, tKeywords, tKw, tAttempt, tDelay, tLog, tSleeps, tTrends, tWarnings>>

runVars == <<rpc, rCfg, rTop, rAt, rRedditPosts, rLowScore, rTrends, rQueries,
             rWarnings, rFailures>>

mergeVars == <<mpc, mBase, mOverride, mMerged>>

coreVars == <<histVars, fetchVars, filterVars, prescoreVars, trendsVars, runVars>>
queryVars == <<qpc, qCall, qClient, qPosts, qTrends, qAnswer, qName, qConfigOk,
               qSynth, qFake, qResult, qResp>>
enrichVars == <<epc, eImpl, eApiKey, eGemini, eUrl, eComments, eOutput, ePost,
                eResult>>
poolVars == <<wpc, wWorkers, wPosts, wFuture, wOrder, wScored, wWarnings>>
marksVars == <<cImpl, cClient, cPrior, cDocs, cCache, cHeap, cThread>>
batchVars == <<bpc, bImpl, bClient, bIds, bCommits>>
normVars == <<nImpl, nShape, nListing, nPosts>>
sessionVars == <<sImpl, sStatus, sQueries, sSources, sResp>>
lateVars == <<poolVars, marksVars, batchVars, normVars, sessionVars>>
earlyVars == <<coreVars, mergeVars, queryVars, enrichVars>>
auxVars == <<mergeVars, queryVars, enrichVars, lateVars>>

vars == <<coreVars, auxVars>>

\* What each subsystem leaves alone.
beyondReddit == <<filterVars, prescoreVars, trendsVars, runVars, auxVars>>
outsideHistory == <<fetchVars, beyondReddit>>
outsideFetch == <<ret, beyondReddit>>
outsideFilter == <<histVars, fetchVars, prescoreVars, trendsVars, runVars, auxVars>>
outsidePrescore == <<histVars, fetchVars, filterVars, trendsVars, runVars, auxVars>>
outsideTrends == <<histVars, fetchVars, filterVars, prescoreVars, runVars, auxVars>>
outsideRun == <<hImpl, fsClient, hKeys, hCache, ret, fetchVars, filterVars,
                prescoreVars, trendsVars, auxVars>>
outsideMerge == <<coreVars, queryVars, enrichVars, lateVars>>
outsideQueries == <<coreVars, mergeVars, enrichVars, lateVars>>
outsideEnrich == <<coreVars, mergeVars, queryVars, lateVars>>
outsidePool == <<earlyVars, marksVars, batchVars, normVars, sessionVars>>
outsideMarks == <<earlyVars, poolVars, batchVars, normVars, sessionVars>>
outsideBatch == <<earlyVars, poolVars, marksVars, normVars, sessionVars>>
outsideNorm == <<earlyVars, poolVars, marksVars, batchVars, sessionVars>>
outsideSession == <<earlyVars, poolVars, marksVars, batchVars, normVars>>

(***************************************************************************)
(* Bounds of the model.                                                    *)
(***************************************************************************)
MaxIds == 2
MaxListing == 2
MaxFilterPosts == 2
MaxBatch == 2
MaxItems == 2
MaxKeywords == 2
MaxRunPosts == 2
MaxRunKeywords == 1
MaxPoolPosts == 2
MaxPoolWorkers == 2
MaxMarkIds == 501
MaxSessionQueries == 2
MaxSessionSources == 2

\* Every history and fetch operation is keyed by its segment name and touches no
\* other key; the model follows one segment.
Segments == {"smb"}

\* Post ids as the code sees them after str(): 0 stands for the empty string.
PostIds == 1..MaxIds
RawIds == 0..MaxIds

(***************************************************************************)
(* Processed-post history, voc_discovery.py                                *)
(***************************************************************************)

\* _get_local_cache: the segment's set, created empty on first access.
GetLocalCache(cache, seg) == cache[seg]

\* _load_processed_post_ids: the set it returns.  Without a Firestore client, or
\* when streaming the collection raises, a copy of the local cache; otherwise the
\* ids of the streamed documents.
LoadProcessedPostIds(client, st, cache, seg, readOk) ==
    IF ~client THEN GetLocalCache(cache, seg)
    ELSE IF ~readOk THEN GetLocalCache(cache, seg)
    ELSE st[seg]

\* _load_processed_post_ids: the local cache it leaves.  A successful read
\* assigns the streamed set to _local_dedupe_cache[segment_name].
LoadProcessedCache(client, st, cache, seg, readOk) ==
    IF client /\ readOk THEN [cache EXCEPT ![seg] = st[seg]] ELSE cache

\* ids_to_store = {post_id for post_id in post_ids if post_id}
IdsToStore(ids) == {i \in ids : i # 0}

\* _mark_posts_processed: the Firestore documents after batch.commit().
MarkProcessedStore(client, st, seg, ids, commitOk) ==
    IF client /\ commitOk /\ IdsToStore(ids) # {}
    THEN [st EXCEPT ![seg] = @ \cup IdsToStore(ids)]
    ELSE st

\* _mark_posts_processed: the local cache after the trailing cache.update(),
\* which runs whatever batch.commit() did.
MarkProcessedCacheLost(cache, seg, ids, commitOk) ==
    IF commitOk THEN [cache EXCEPT ![seg] = @ \cup IdsToStore(ids)] ELSE cache

MarkProcessedCache(cache, seg, ids, commitOk) ==
    [cache EXCEPT ![seg] = @ \cup IdsToStore(ids)]

\* except Exception around batch.commit(): the failure is logged, never raised.
MarkProcessedRaises(client, commitOk) == FALSE

\* How the persist step of a mark went.
CommitCase(client, commitOk) ==
    IF ~client THEN "noclient" ELSE IF commitOk THEN "ok" ELSE "fail"

NoCall == [op |-> "none", seg |-> "smb", ids |-> {}, commit |-> "noclient",
           raised |-> FALSE]

DLoad(seg, readOk) ==
    /\ hImpl = "discovery"
    /\ ret' = [op |-> "DLoad", seg |-> seg,
               ids |-> LoadProcessedPostIds(fsClient, store, dCache, seg, readOk),
               commit |-> "noclient", raised |-> FALSE]
    /\ dCache' = LoadProcessedCache(fsClient, store, dCache, seg, readOk)
    /\ UNCHANGED <<hImpl, fsClient, store, hKeys, hCache, marked>>
    /\ UNCHANGED outsideHistory

DMark(seg, ids, commitOk) ==
    /\ hImpl = "discovery"
    /\ store' = MarkProcessedStore(fsClient, store, seg, ids, commitOk)
    /\ dCache' = IF IdsToStore(ids) = {} THEN dCache
                 ELSE MarkProcessedCache(dCache, seg, ids, commitOk)
    /\ marked' = [marked EXCEPT ![seg] = @ \cup IdsToStore(ids)]
    /\ ret' = [op |-> "DMark", seg |-> seg, ids |-> ids,
               commit |-> CommitCase(fsClient, commitOk),
               raised |-> MarkProcessedRaises(fsClient, commitOk)]
    /\ UNCHANGED <<hImpl, fsClient, hKeys, hCache>>
    /\ UNCHANGED outsideHistory

(***************************************************************************)
(* RedditHistoryStore, voc_reddit.py                                       *)
(***************************************************************************)

\* RedditHistoryStore.load: the set it returns.
StoreLoad(client, st, keys, cache, seg, readOk) ==
    IF seg \in keys THEN cache[seg]
    ELSE IF ~client THEN {}
    ELSE IF ~readOk THEN {}
    ELSE st[seg]

\* RedditHistoryStore.load: self._cache afterwards (the key is always set).
StoreLoadCache(client, st, keys, cache, seg, readOk) ==
    IF seg \in keys THEN cache
    ELSE [cache EXCEPT ![seg] = StoreLoad(client, st, keys, cache, seg, readOk)]

\* RedditHistoryStore.mark: cache.update(ids), before the persist step.
StoreMarkCache(cache, seg, ids, client, commitOk) ==
    [cache EXCEPT ![seg] = @ \cup IdsToStore(ids)]

\* RedditHistoryStore.create: a new instance, its cache empty.
HCreate ==
    /\ hImpl = "store"
    /\ hKeys' = {}
    /\ hCache' = [s \in Segments |-> {}]
    /\ ret' = NoCall
    /\ UNCHANGED <<hImpl, fsClient, store, dCache, marked>>
    /\ UNCHANGED outsideHistory

HLoad(seg, readOk) ==
    /\ hImpl = "store"
    /\ ret' = [op |-> "HLoad", seg |-> seg,
               ids |-> StoreLoad(fsClient, store, hKeys, hCache, seg, readOk),
               commit |-> "noclient", raised |-> FALSE]
    /\ hCache' = StoreLoadCache(fsClient, store, hKeys, hCache, seg, readOk)
    /\ hKeys' = hKeys \cup {seg}
    /\ UNCHANGED <<hImpl, fsClient, store, dCache, marked>>
    /\ UNCHANGED outsideHistory

HMark(seg, ids, commitOk) ==
    /\ hImpl = "store"
    /\ IF IdsToStore(ids) = {}
       THEN UNCHANGED <<store, hKeys, hCache>>
       ELSE /\ hKeys' = hKeys \cup {seg}
            /\ hCache' = StoreMarkCache(hCache, seg, ids, fsClient, commitOk)
            /\ store' = MarkProcessedStore(fsClient, store, seg, ids, commitOk)
    /\ ret' = [op |-> "HMark", seg |-> seg, ids |-> ids,
               commit |-> CommitCase(fsClient, commitOk),
               raised |-> MarkProcessedRaises(fsClient, commitOk)]
    /\ UNCHANGED <<hImpl, fsClient, dCache, marked>>
    /\ UNCHANGED outsideHistory

(***************************************************************************)
(* Reddit collection: fetch_reddit_posts (voc_discovery.py) when hImpl is  *)
(* "discovery", RedditDataCollector.fetch_posts (voc_reddit.py) when it is *)
(* "store".                                                                *)
(***************************************************************************)

\* subreddits of the segment configuration.
SubredditList == <<"smallbusiness", "startups">>

\* The posts the listing API can return, one per id.  A post carries its score
\* as "score", and the posts with an even id as "ups" too; the post RawPost(0)
\* has no "id" and names itself by "post_id".
RawPost(w) ==
    [id |-> w,
     post_id |-> IF w = 0 THEN 1 ELSE 0,
     ups |-> IF w # 0 /\ w % 2 = 0 THEN 15 ELSE 0,
     score |-> IF w # 0 /\ w % 2 = 0 THEN 15 ELSE 25,
     num_comments |-> 8]

\* A listing: the raw posts of one response, in order.
Listings == UNION {[1..n -> RawIds] : n \in 0..MaxListing}

\* The shapes of a response body: a bare array, {data: [...]}, {posts: [...]},
\* {data: {children: [{data: {...}}]}} and an empty body.
Shapes == {"array", "data", "posts", "children", "empty"}

\* reddit_filters of the segment configuration file.
FilterConfigs ==
    {[min_score |-> 20, min_comments |-> 5],
     [min_score |-> 30, min_comments |-> 5],
     [min_score |-> 20, min_comments |-> 10]}

\* The payload normalisation of each collector: the raw posts it reads.
RawPostsOf(impl, shape, listing) ==
    IF impl = "discovery"
    THEN IF shape \in {"data", "posts", "children", "array"} THEN listing ELSE <<>>
    ELSE IF shape \in {"data", "posts"} THEN listing ELSE <<>>

\* post_id of a raw post, 0 for the empty string.
PostIdOf(impl, raw) ==
    IF impl = "discovery" THEN raw.id
    ELSE IF raw.id # 0 THEN raw.id ELSE raw.post_id

\* score: int(post.get("ups") or post.get("score") or 0), resp. int(post.get("score", 0)).
ScoreOf(impl, raw) ==
    IF impl = "discovery"
    THEN (IF raw.ups # 0 THEN raw.ups ELSE raw.score)
    ELSE raw.score

CommentsOf(impl, raw) == raw.num_comments

\* The engagement filter: a post is kept unless its score is below min_score or
\* its comment count is below min_comments.
PassesEngagementAnd(impl, raw, flt) ==
    ~(ScoreOf(impl, raw) < flt.min_score /\ CommentsOf(impl, raw) < flt.min_comments)

PassesEngagement(impl, raw, flt) ==
    ~(ScoreOf(impl, raw) < flt.min_score \/ CommentsOf(impl, raw) < flt.min_comments)

\* if not post_id or post_id in processed_ids: continue
SkippedAsProcessed(impl, raw, processed) ==
    PostIdOf(impl, raw) = 0 \/ PostIdOf(impl, raw) \in processed

\* The candidate appended for a raw post.
Candidate(impl, raw, sub) ==
    [id |-> PostIdOf(impl, raw), score |-> ScoreOf(impl, raw),
     num_comments |-> CommentsOf(impl, raw), subreddit |-> sub]

\* The inner loop over the raw posts of one subreddit.
RECURSIVE FilterPosts(_, _, _, _, _)
FilterPosts(impl, listing, processed, flt, sub) ==
    IF listing = <<>> THEN <<>>
    ELSE LET raw == RawPost(Head(listing))
             rest == FilterPosts(impl, Tail(listing), processed, flt, sub)
         IN IF SkippedAsProcessed(impl, raw, processed) THEN rest
            ELSE IF ~PassesEngagement(impl, raw, flt) THEN rest
            ELSE <<Candidate(impl, raw, sub)>> \o rest

\* curated.sort(key=score, reverse=True): stable, highest score first.
RECURSIVE InsertByScore(_, _)
InsertByScore(c, sorted) ==
    IF sorted = <<>> THEN <<c>>
    ELSE IF Head(sorted).score >= c.score
         THEN <<Head(sorted)>> \o InsertByScore(c, Tail(sorted))
         ELSE <<c>> \o sorted

RECURSIVE SortByScore(_)
SortByScore(cands) ==
    IF cands = <<>> THEN <<>>
    ELSE InsertByScore(cands[Len(cands)], SortByScore(SubSeq(cands, 1, Len(cands) - 1)))

IdsOf(cands) == {cands[k].id : k \in 1..Len(cands)}

\* The fetch starts: the filters are parsed and the history is loaded.
FetchStart(seg, readOk) ==
    /\ fpc \in {"idle", "done"}
    /\ handled' = handled \cup IdsOf(curated)
    /\ IF hImpl = "discovery"
       THEN /\ processedIds' = LoadProcessedPostIds(fsClient, store, dCache, seg, readOk)
            /\ dCache' = LoadProcessedCache(fsClient, store, dCache, seg, readOk)
            /\ UNCHANGED <<hKeys, hCache>>
       ELSE /\ processedIds' = StoreLoad(fsClient, store, hKeys, hCache, seg, readOk)
            /\ hCache' = StoreLoadCache(fsClient, store, hKeys, hCache, seg, readOk)
            /\ hKeys' = hKeys \cup {seg}
            /\ UNCHANGED dCache
    /\ curated' = <<>>
    /\ fWarnings' = <<>>
    /\ fSeen' = {}
    /\ fSub' = 1
    /\ fpc' = "loop"
    /\ UNCHANGED <<hImpl, fsClient, store, marked, filters>>
    /\ UNCHANGED outsideFetch

\* What the fetch does after the subreddit loop: fetch_reddit_posts marks the
\* candidates processed, RedditDataCollector.fetch_posts sorts them.
FetchReturn(seg, cands) ==
    IF hImpl = "discovery"
    THEN \E commitOk \in BOOLEAN :
         /\ curated' = cands
         /\ store' = MarkProcessedStore(fsClient, store, seg, IdsOf(cands), commitOk)
         /\ dCache' = IF IdsToStore(IdsOf(cands)) = {} THEN dCache
                      ELSE MarkProcessedCache(dCache, seg, IdsOf(cands), commitOk)
         /\ marked' = [marked EXCEPT ![seg] = @ \cup IdsToStore(IdsOf(cands))]
    ELSE /\ curated' = SortByScore(cands)
         /\ UNCHANGED <<store, dCache, marked>>

FetchSubredditFailsFatal(seg) ==
    /\ fpc = "loop"
    /\ fWarnings' = Append(fWarnings, SubredditList[fSub])
    /\ fSub' = fSub + 1
    /\ FetchReturn(seg, <<>>)
    /\ fpc' = "done"
    /\ UNCHANGED <<hImpl, fsClient, hKeys, hCache, filters, processedIds, fSeen, handled>>
    /\ UNCHANGED outsideFetch

\* One iteration of the subreddit loop whose request fails.
FetchSubredditFails(seg) ==
    /\ fpc = "loop"
    /\ fWarnings' = Append(fWarnings, SubredditList[fSub])
    /\ fSub' = fSub + 1
    /\ IF fSub = Len(SubredditList)
       THEN /\ FetchReturn(seg, curated)
            /\ fpc' = "done"
       ELSE UNCHANGED <<curated, store, dCache, marked, fpc>>
    /\ UNCHANGED <<hImpl, fsClient, hKeys, hCache, filters, processedIds, fSeen, handled>>
    /\ UNCHANGED outsideFetch

\* One iteration of the subreddit loop whose request succeeds.
FetchSubreddit(seg, shape, listing) ==
    /\ fpc = "loop"
    /\ LET raws == RawPostsOf(hImpl, shape, listing)
           cands == curated \o FilterPosts(hImpl, raws, processedIds, filters,
                                           SubredditList[fSub])
       IN /\ fSeen' = fSeen \cup {raws[k] : k \in 1..Len(raws)}
          /\ IF fSub = Len(SubredditList)
             THEN /\ FetchReturn(seg, cands)
                  /\ fpc' = "done"
             ELSE /\ curated' = cands
                  /\ UNCHANGED <<store, dCache, marked, fpc>>
    /\ fSub' = fSub + 1
    /\ UNCHANGED <<hImpl, fsClient, hKeys, hCache, filters, processedIds, fWarnings, handled>>
    /\ UNCHANGED outsideFetch

\* A request of the staged API builds its own RedditHistoryStore.
FetchNewStore ==
    /\ hImpl = "store"
    /\ fpc \in {"idle", "done"}
    /\ hKeys' = {}
    /\ hCache' = [s \in Segments |-> {}]
    /\ UNCHANGED <<hImpl, fsClient, store, dCache, marked, ret>>
    /\ UNCHANGED fetchVars
    /\ UNCHANGED beyondReddit

(***************************************************************************)
(* filter_high_value_posts (voc_synthesis.py).  A post carries its id and  *)
(* what post.get("ai_analysis") and analysis.get("relevance_score") find:  *)
(* kind "absent" is a post with no (or a falsy) ai_analysis, "nokey" an    *)
(* analysis without relevance_score, "null" a None score, "str" a score    *)
(* the model wrote as a string, "bool" True/False, "int" and "float" a     *)
(* number.  Values are in tenths, so 60 is 6.0 and True is 10.             *)
(***************************************************************************)
ScoreKinds == {"absent", "nokey", "null", "str", "bool", "int", "float"}

FilterPostShapes ==
    {[kind |-> "absent", val |-> 0], [kind |-> "nokey", val |-> 0],
     [kind |-> "null", val |-> 0], [kind |-> "str", val |-> 80],
     [kind |-> "bool", val |-> 10], [kind |-> "int", val |-> 50],
     [kind |-> "int", val |-> 60], [kind |-> "float", val |-> 65],
     [kind |-> "float", val |-> 85]}

ScoredPosts ==
    {[id |-> i, kind |-> sh.kind, val |-> sh.val] :
        i \in 1..2, sh \in FilterPostShapes}

FilterInputs == UNION {[1..n -> ScoredPosts] : n \in 0..MaxFilterPosts}

\* min_score values callers pass: 0.0, 6.0 (the default) and 7.0.
FilterMinScores == {0, 60, 70}

\* isinstance(score, (int, float)): bool is a subclass of int.
IsNumber(post) == post.kind \in {"int", "float", "bool"}

IsHighValueUntyped(post, min) == post.val >= min

\* isinstance(score, (int, float)) and score >= min_score
IsHighValue(post, min) == IsNumber(post) /\ post.val >= min

\* The loop over posts: each post is appended to accepted or to rejected.
RECURSIVE FilterLoop(_, _, _, _)
FilterLoop(posts, min, accepted, rejected) ==
    IF posts = <<>> THEN [accepted |-> accepted, rejected |-> rejected]
    ELSE IF IsHighValue(Head(posts), min)
         THEN FilterLoop(Tail(posts), min, Append(accepted, Head(posts)), rejected)
         ELSE FilterLoop(Tail(posts), min, accepted, Append(rejected, Head(posts)))

FilterHighValuePosts(posts, min) == FilterLoop(posts, min, <<>>, <<>>)

FilterCall ==
    /\ ~flCalled
    /\ flCalled' = TRUE
    /\ flAccepted' = FilterHighValuePosts(flPosts, flMin).accepted
    /\ flRejected' = FilterHighValuePosts(flPosts, flMin).rejected
    /\ flPostsAfter' = flPosts
    /\ UNCHANGED <<flPosts, flMin>>
    /\ UNCHANGED outsideFilter

InitFilterIdle ==
    /\ flCalled = FALSE
    /\ flPosts = <<>>
    /\ flPostsAfter = <<>>
    /\ flMin = 60
    /\ flAccepted = <<>>
    /\ flRejected = <<>>

(***************************************************************************)
(* Batch pre-scoring: _batch_prescore_posts (voc_discovery.py) and         *)
(* batch_prescore_posts (voc_synthesis.py), for one batch (the input is no *)
(* longer than batch_size).  The input is the sequence of the posts' ids,  *)
(* 0 for a post without id; a scored post names the position of the input *)
(* post it is.  Scores are in tenths.                                      *)
(*                                                                         *)
(* An element of the model's answer is kind "obj" (an object with an       *)
(* integer post_index and a numeric score), "noindex" (post_index absent   *)
(* or null), "strindex" (post_index a string), "strscore" (score a string) *)
(* or "undecodable" (an array element that is no object, a line that does  *)
(* not decode).                                                            *)
(***************************************************************************)
NeutralScore == 50
ScoreThreshold == 60

PrescoreInputs == UNION {[1..n -> 0..2] : n \in 0..MaxBatch}

ScoreItems ==
    {[kind |-> "obj", post_index |-> i, score |-> sc] :
        i \in (-1)..MaxBatch, sc \in {40, 80}}
    \cup {[kind |-> k, post_index |-> 0, score |-> 80] :
        k \in {"noindex", "strindex", "strscore", "undecodable"}}

ItemLists == UNION {[1..n -> ScoreItems] : n \in 0..MaxItems}

\* "noclient": no Gemini client; "error": the call raised; "empty": no text;
\* "notlist": JSON that is no array; "list": the elements of the answer.
Responses ==
    {[kind |-> k, items |-> <<>>] : k \in {"noclient", "error", "empty", "notlist"}}
    \cup {[kind |-> "list", items |-> items] : items \in ItemLists}

ScoredPost(posts, pos, sc, num) ==
    [post |-> pos, id |-> posts[pos], score |-> sc, numeric |-> num]

\* [(post, 5.0) for post in posts]
NeutralFallback(posts) ==
    [k \in 1..Len(posts) |-> ScoredPost(posts, k, NeutralScore, TRUE)]

\* _validate_batch_prescore_response: a list of dicts with the three keys, an
\* int post_index and a numeric relevance_score; a wrong count is only logged.
ValidateBatchPrescoreResponse(resp, expected) ==
    /\ resp.kind = "list"
    /\ \A k \in 1..Len(resp.items) : resp.items[k].kind = "obj"

\* for item in parsed: if 0 <= post_index < len(posts): scored_posts.append(..)
RECURSIVE MatchScores(_, _)
MatchScores(items, posts) ==
    IF items = <<>> THEN <<>>
    ELSE LET item == Head(items)
             rest == MatchScores(Tail(items), posts)
         IN  IF 0 <= item.post_index /\ item.post_index < Len(posts)
             THEN <<ScoredPost(posts, item.post_index + 1, item.score, TRUE)>> \o rest
             ELSE rest

BatchPrescoreDiscovery(posts, resp) ==
    IF posts = <<>> THEN <<>>
    ELSE IF resp.kind \in {"noclient", "error", "empty"} THEN NeutralFallback(posts)
    ELSE IF ~ValidateBatchPrescoreResponse(resp, Len(posts)) THEN NeutralFallback(posts)
    ELSE SortByScore(MatchScores(resp.items, posts))

\* rejected_low_scores: the scored posts below SCORE_THRESHOLD, on the path
\* that matched scores; the fallback paths return an empty list.
RejectedLowScores(posts, resp, scored) ==
    IF posts # <<>> /\ ValidateBatchPrescoreResponse(resp, Len(posts))
    THEN SelectSeq(scored, LAMBDA e : e.score < ScoreThreshold)
    ELSE <<>>

PrescoreDiscovery ==
    /\ psOp = "none"
    /\ psOp' = "discovery"
    /\ psScored' = BatchPrescoreDiscovery(psPosts, psResp)
    /\ psRejectedLow' = RejectedLowScores(psPosts, psResp, psScored')
    /\ UNCHANGED <<psPosts, psResp, psWarnings, psRaised>>
    /\ UNCHANGED outsidePrescore

\* posts_by_id = {post.get("id"): post for post in posts if post.get("id")}:
\* the position of the last input post with that id, 0 when there is none.
PostsById(posts, id) ==
    LET at == {k \in 1..Len(posts) : posts[k] = id /\ id # 0}
    IN  IF at = {} THEN 0 ELSE CHOOSE k \in at : \A j \in at : j <= k

\* The lines json.loads accepts, in order.
ParsedScores(items) == SelectSeq(items, LAMBDA it : it.kind # "undecodable")

LineWarningsNone(items) == <<>>

\* One warning per line that does not decode.
LineWarnings(items) ==
    [k \in 1..Len(SelectSeq(items, LAMBDA it : it.kind = "undecodable")) |-> "line"]

\* stripped_batch[idx]: a negative idx counts from the end of the batch.
BatchPosition(idx, n) == IF idx < 0 THEN n + idx + 1 ELSE idx + 1

\* idx >= len(batch) compares a string with an int when post_index is a string.
MergeRaises(parsed) == \E k \in 1..Len(parsed) : parsed[k].kind = "strindex"

\* The merge loop over parsed_scores.
RECURSIVE MergeScores(_, _)
MergeScores(parsed, posts) ==
    IF parsed = <<>> THEN <<>>
    ELSE LET obj == Head(parsed)
             rest == MergeScores(Tail(parsed), posts)
             pos == BatchPosition(obj.post_index, Len(posts))
             orig == PostsById(posts, posts[pos])
         IN  IF obj.kind = "noindex" \/ obj.post_index >= Len(posts) THEN rest
             ELSE IF orig = 0 THEN rest
             ELSE <<ScoredPost(posts, orig, obj.score, obj.kind # "strscore")>> \o rest

BatchPrescoreSynthesis(posts, resp) ==
    IF posts = <<>> THEN [scored |-> <<>>, warnings |-> <<>>, raised |-> FALSE]
    ELSE IF resp.kind = "error"
         THEN [scored |-> <<>>, warnings |-> <<"failed">>, raised |-> FALSE]
    ELSE IF resp.kind = "empty"
         THEN [scored |-> <<>>, warnings |-> <<"empty">>, raised |-> FALSE]
    ELSE IF ParsedScores(resp.items) = <<>>
         THEN [scored |-> <<>>,
               warnings |-> Append(LineWarnings(resp.items), "novalid"),
               raised |-> FALSE]
    ELSE IF MergeRaises(ParsedScores(resp.items))
         THEN [scored |-> <<>>, warnings |-> <<>>, raised |-> TRUE]
    ELSE [scored |-> MergeScores(ParsedScores(resp.items), posts),
          warnings |-> LineWarnings(resp.items),
          raised |-> FALSE]

PrescoreSynthesis ==
    /\ psOp = "none"
    /\ psResp.kind \in {"error", "empty", "list"}
    /\ psOp' = "synthesis"
    /\ psScored' = BatchPrescoreSynthesis(psPosts, psResp).scored
    /\ psWarnings' = BatchPrescoreSynthesis(psPosts, psResp).warnings
    /\ psRaised' = BatchPrescoreSynthesis(psPosts, psResp).raised
    /\ UNCHANGED <<psPosts, psResp, psRejectedLow>>
    /\ UNCHANGED outsidePrescore

InitPrescoreIdle ==
    /\ psOp = "none"
    /\ psPosts = <<>>
    /\ psResp = [kind |-> "empty", items |-> <<>>]
    /\ psScored = <<>>
    /\ psRejectedLow = <<>>
    /\ psWarnings = <<>>
    /\ psRaised = FALSE

(***************************************************************************)
(* fetch_google_trends (voc_trends.py).  A keyword is its position in      *)
(* primary_keywords.  An attempt ends in "429" (rate limited), "error"     *)
(* (any other exception), "data" or "empty" (a response with no interest   *)
(* points and no related items).                                           *)
(***************************************************************************)
max_retries == 3
retry_delay == 2

KeywordLists == {[k \in 1..n |-> k] : n \in 0..MaxKeywords}
Failures == {"429", "error"}

\* if attempt < max_retries - 1: only logged; else: warnings.append(warning)
FailureWarnsAlways(attempt) == TRUE

FailureWarns(attempt) == ~(attempt < max_retries - 1)

\* retry_delay *= 2
NextDelaySame(delay) == delay

NextDelay(delay) == delay * 2

\* if attempt > 0: time.sleep(retry_delay); retry_delay *= 2
SleepsAfterWait == IF tAttempt > 0 THEN Append(tSleeps[tKw], tDelay) ELSE tSleeps[tKw]
DelayAfterWait == IF tAttempt > 0 THEN NextDelay(tDelay) ELSE tDelay

\* The retry loop of the keyword is left: the next keyword starts, or the
\* final validation raises when curated_trends is empty.
TrendsKeywordDone(trends) ==
    IF tKw = Len(tKeywords)
    THEN /\ tpc' = (IF Len(trends) = 0 THEN "raised" ELSE "done")
         /\ UNCHANGED <<tKw, tAttempt>>
         /\ tDelay' = DelayAfterWait
    ELSE /\ tpc' = "attempt"
         /\ tKw' = tKw + 1
         /\ tAttempt' = 0
         /\ tDelay' = retry_delay

TrendsStart ==
    /\ tpc = "idle"
    /\ IF tKeywords = <<>>
       THEN /\ tWarnings' = <<[keyword |-> 0, kind |-> "nokeywords"]>>
            /\ tpc' = "done"
       ELSE /\ tpc' = "attempt"
            /\ UNCHANGED tWarnings
    /\ tKw' = 1
    /\ tAttempt' = 0
    /\ tDelay' = retry_delay
    /\ UNCHANGED <<tKeywords, tLog, tSleeps, tTrends>>
    /\ UNCHANGED outsideTrends

\* An attempt whose four requests succeed: the signal is appended, with a
\* warning when it is structurally empty, and the retry loop is left.
TrendsAttemptSucceeds(outcome) ==
    /\ tpc = "attempt"
    /\ outcome \in {"data", "empty"}
    /\ tSleeps' = [tSleeps EXCEPT ![tKw] = SleepsAfterWait]
    /\ tLog' = [tLog EXCEPT ![tKw] = Append(@, outcome)]
    /\ tTrends' = Append(tTrends, [query |-> tKw, empty |-> outcome = "empty"])
    /\ tWarnings' = IF outcome = "empty"
                    THEN Append(tWarnings, [keyword |-> tKw, kind |-> "nodata"])
                    ELSE tWarnings
    /\ TrendsKeywordDone(tTrends')
    /\ UNCHANGED tKeywords
    /\ UNCHANGED outsideTrends

\* An attempt that raises: logged and retried, or after the last attempt
\* recorded as a warning.
TrendsAttemptFails(outcome) ==
    /\ tpc = "attempt"
    /\ outcome \in Failures
    /\ tSleeps' = [tSleeps EXCEPT ![tKw] = SleepsAfterWait]
    /\ tLog' = [tLog EXCEPT ![tKw] = Append(@, outcome)]
    /\ tWarnings' = IF FailureWarns(tAttempt)
                    THEN Append(tWarnings, [keyword |-> tKw, kind |-> "failed"])
                    ELSE tWarnings
    /\ IF tAttempt + 1 < max_retries
       THEN /\ tAttempt' = tAttempt + 1
            /\ tDelay' = DelayAfterWait
            /\ UNCHANGED <<tpc, tKw>>
       ELSE TrendsKeywordDone(tTrends)
    /\ UNCHANGED <<tKeywords, tTrends>>
    /\ UNCHANGED outsideTrends

InitTrendsIdle ==
    /\ tpc = "idle"
    /\ tKeywords = <<>>
    /\ tKw = 1
    /\ tAttempt = 0
    /\ tDelay = retry_delay
    /\ tLog = <<>>
    /\ tSleeps = <<>>
    /\ tTrends = <<>>
    /\ tWarnings = <<>>

(***************************************************************************)
(* run_voc_discovery (voc_discovery.py).  The run is sequential: the       *)
(* configuration is loaded, then the Reddit stage (fetch, Python filter,   *)
(* batch pre-score, top posts), the enrichment of each top post, the trend *)
(* lookup of each keyword and the query synthesis.  What the calls to the  *)
(* outside answer is chosen by the environment; rFailures records it.      *)
(***************************************************************************)
TopPosts == 5

\* The configuration and environment of a run.  The Reddit key is used only
\* when Reddit is enabled and the keywords only when trends are, so they
\* vary only there.
ConfigsUpTo(keywords) ==
    {c \in [enable_reddit : BOOLEAN, enable_trends : BOOLEAN,
             enable_curated_queries : BOOLEAN, api_key : BOOLEAN,
             gemini_key : BOOLEAN, keywords : 0..keywords] :
        /\ c.enable_reddit \/ c.api_key
        /\ c.enable_trends \/ c.keywords = 0}

RunConfigs == ConfigsUpTo(MaxRunKeywords)

\* The configurations that disable Reddit, with the keyword lists of the
\* trends fetch.
TrendsRunConfigs == {c \in ConfigsUpTo(MaxKeywords) : ~c.enable_reddit}

\* What fetch_reddit_posts returns: the candidates, by id.
RunFetched == {[k \in 1..n |-> k] : n \in 0..MaxRunPosts}

\* What the model answers to the batch pre-score of the run.
RunResponses(n) ==
    {[kind |-> "error", items |-> <<>>],
     [kind |-> "list", items |-> <<>>],
     [kind |-> "list",
      items |-> [k \in 1..n |-> [kind |-> "obj", post_index |-> n - k,
                                 score |-> IF k = 1 THEN 80 ELSE 40]]]}

\* _get_gemini_client() is None without GEMINI_API_KEY: the batch pre-score
\* then has no answer of the model to work on.
PrescoreAnswers(cfg, n) ==
    IF cfg.gemini_key THEN RunResponses(n)
    ELSE {[kind |-> "noclient", items |-> <<>>]}

\* get_post_details_and_score without a Gemini client returns the post and
\* the warning that AI scoring was skipped.
EnrichOutcomesAny(cfg) == {"ok", "ai_failed", "raises"}

EnrichOutcomes(cfg) ==
    IF cfg.gemini_key THEN {"ok", "ai_failed", "raises"} ELSE {"ai_failed", "raises"}

\* generate_curated_queries: without a Gemini client it returns a warning;
\* with no post and no trend signal it returns ([], []) before any model call.
QueryOutcomes(cfg, posts, trends) ==
    IF ~cfg.enable_curated_queries THEN {"ok"}
    ELSE IF ~cfg.gemini_key THEN {"synthesis_failed"}
    ELSE IF posts = <<>> /\ trends = <<>> THEN {"ok"}
    ELSE {"ok", "synthesis_failed", "raises"}

\* The paths of _batch_prescore_posts that give up on the model's answer.
PrescoreFailed(posts, resp) ==
    \/ resp.kind \in {"noclient", "error", "empty"}
    \/ ~ValidateBatchPrescoreResponse(resp, Len(posts))

\* The try/except blocks of the run: an exception of these stages is caught.
RunCatchesExceptEnrich(stage) == stage \in {"reddit", "trends", "queries"}

RunCatches(stage) == stage \in {"reddit", "enrich", "trends", "queries"}

\* except Exception in the keyword loop: "429" in str(exc) only sleeps.
TrendExceptionWarns(outcome) == outcome # "raises_429"

AfterReddit(top) == IF top = <<>> THEN "trends" ELSE "enrich"

\* _load_segment_config raises, or the configuration is loaded and merged.
RunLoadConfig(ok) ==
    /\ rpc = "config"
    /\ rpc' = IF ok THEN "reddit" ELSE "config_error"
    /\ UNCHANGED <<rCfg, rTop, rAt, rRedditPosts, rLowScore, rTrends, rQueries,
                   rWarnings, rFailures>>
    /\ UNCHANGED <<store, dCache, marked>>
    /\ UNCHANGED outsideRun

\* enable_reddit is false, or SCRAPECREATORS_API_KEY is missing.
RunRedditSkipped ==
    /\ rpc = "reddit"
    /\ ~rCfg.enable_reddit \/ ~rCfg.api_key
    /\ rWarnings' = IF rCfg.enable_reddit THEN Append(rWarnings, "nokey") ELSE rWarnings
    /\ rpc' = "trends"
    /\ rAt' = 1
    /\ UNCHANGED <<rCfg, rTop, rRedditPosts, rLowScore, rTrends, rQueries, rFailures>>
    /\ UNCHANGED <<store, dCache, marked>>
    /\ UNCHANGED outsideRun

\* fetch_reddit_posts raises: the except of the Reddit stage.
RunRedditFetchRaises ==
    /\ rpc = "reddit"
    /\ rCfg.enable_reddit /\ rCfg.api_key
    /\ rFailures' = Append(rFailures, "fetch")
    /\ IF RunCatches("reddit")
       THEN /\ rWarnings' = Append(rWarnings, "fetch")
            /\ rpc' = AfterReddit(rTop)
       ELSE /\ rpc' = "raised"
            /\ UNCHANGED rWarnings
    /\ rAt' = 1
    /\ UNCHANGED <<rCfg, rTop, rRedditPosts, rLowScore, rTrends, rQueries>>
    /\ UNCHANGED <<store, dCache, marked>>
    /\ UNCHANGED outsideRun

\* fetch_reddit_posts returns (and has marked its candidates) with a warning
\* for each of the subFails subreddits whose request failed, then the Python
\* filter keeps the first `kept` posts and the batch pre-score orders them.
RunRedditFetched(subFails, fetched, kept, resp) ==
    /\ rpc = "reddit"
    /\ rCfg.enable_reddit /\ rCfg.api_key
    /\ kept <= Len(fetched)
    /\ resp \in PrescoreAnswers(rCfg, kept)
    /\ LET ids == {fetched[k] : k \in 1..Len(fetched)}
           filtered == SubSeq(fetched, 1, kept)
           scored == BatchPrescoreDiscovery(filtered, resp)
           top == [k \in 1..(IF Len(scored) < TopPosts THEN Len(scored) ELSE TopPosts)
                      |-> scored[k].id]
           fails == [k \in 1..subFails |-> "subreddit"]
       IN  /\ \E commitOk \in BOOLEAN :
                /\ store' = MarkProcessedStore(fsClient, store, "smb", ids, commitOk)
                /\ dCache' = MarkProcessedCache(dCache, "smb", ids, commitOk)
           /\ marked' = [marked EXCEPT !["smb"] = @ \cup IdsToStore(ids)]
           /\ rWarnings' = rWarnings \o fails
           /\ rFailures' = rFailures \o fails \o
                  (IF filtered # <<>> /\ PrescoreFailed(filtered, resp)
                   THEN <<"prescore">> ELSE <<>>)
           /\ rLowScore' = RejectedLowScores(filtered, resp, scored)
           /\ rTop' = top
           /\ rpc' = AfterReddit(top)
    /\ rAt' = 1
    /\ UNCHANGED <<rCfg, rRedditPosts, rTrends, rQueries>>
    /\ UNCHANGED outsideRun

\* One iteration of the loop over the top posts: get_post_details_and_score
\* returns the post ("ok"), returns it without ai_analysis and with a warning
\* ("ai_failed"), or raises.
RunEnrichPost(outcome) ==
    /\ rpc = "enrich"
    /\ outcome \in EnrichOutcomes(rCfg)
    /\ rFailures' = IF outcome = "ok" THEN rFailures ELSE Append(rFailures, outcome)
    /\ rRedditPosts' =
          IF outcome = "raises" THEN rRedditPosts
          ELSE Append(rRedditPosts, [id |-> rTop[rAt], ai_analysis |-> outcome = "ok"])
    /\ IF outcome = "raises" /\ ~RunCatches("enrich")
       THEN /\ rpc' = "raised"
            /\ UNCHANGED <<rWarnings, rAt>>
       ELSE /\ rWarnings' = IF outcome = "ok" THEN rWarnings
                            ELSE Append(rWarnings, outcome)
            /\ rpc' = IF rAt = Len(rTop) THEN "trends" ELSE "enrich"
            /\ rAt' = IF rAt = Len(rTop) THEN 1 ELSE rAt + 1
    /\ UNCHANGED <<rCfg, rTop, rLowScore, rTrends, rQueries>>
    /\ UNCHANGED <<store, dCache, marked>>
    /\ UNCHANGED outsideRun

\* enable_trends is false, or no keyword is configured.
RunTrendsSkipped ==
    /\ rpc = "trends"
    /\ ~rCfg.enable_trends \/ rCfg.keywords = 0
    /\ rWarnings' = IF rCfg.enable_trends THEN Append(rWarnings, "nokeywords")
                    ELSE rWarnings
    /\ rpc' = "queries"
    /\ UNCHANGED <<rCfg, rTop, rAt, rRedditPosts, rLowScore, rTrends, rQueries, rFailures>>
    /\ UNCHANGED <<store, dCache, marked>>
    /\ UNCHANGED outsideRun

\* One iteration of the keyword loop: the module's own fetch_google_trends
\* returns a signal ("data"), returns no signal and a warning because the
\* one lookup it makes was rate-limited ("rate_limited") or failed otherwise
\* ("lookup_failed"), or an exception reaches the loop ("raises_429",
\* "raises_other").
TrendOutcomes == {"data", "rate_limited", "lookup_failed", "raises_429", "raises_other"}

\* The same without telling the rate limit apart: both failures of the
\* lookup take the one except branch of fetch_google_trends.
LookupOutcomes == TrendOutcomes \ {"rate_limited"}

RunTrendKeyword(outcome) ==
    /\ rpc = "trends"
    /\ rCfg.enable_trends /\ rCfg.keywords > 0
    /\ outcome \in TrendOutcomes
    /\ rFailures' = IF outcome = "data" THEN rFailures ELSE Append(rFailures, outcome)
    /\ rTrends' = IF outcome = "data" THEN Append(rTrends, rAt) ELSE rTrends
    /\ IF outcome \in {"raises_429", "raises_other"} /\ ~RunCatches("trends")
       THEN /\ rpc' = "raised"
            /\ UNCHANGED <<rWarnings, rAt>>
       ELSE /\ rWarnings' =
                  IF outcome \in {"rate_limited", "lookup_failed"}
                  THEN Append(rWarnings, outcome)
                  ELSE IF outcome \in {"raises_429", "raises_other"}
                          /\ TrendExceptionWarns(outcome)
                       THEN Append(rWarnings, outcome)
                  ELSE rWarnings
            /\ rpc' = IF rAt = rCfg.keywords THEN "queries" ELSE "trends"
            /\ rAt' = IF rAt = rCfg.keywords THEN 1 ELSE rAt + 1
    /\ UNCHANGED <<rCfg, rTop, rRedditPosts, rLowScore, rQueries>>
    /\ UNCHANGED <<store, dCache, marked>>
    /\ UNCHANGED outsideRun

\* results["reddit_posts"] or fetched_reddit_posts
QueriesInput == IF rRedditPosts # <<>> THEN rRedditPosts ELSE rTop

\* The query synthesis: disabled, or generate_curated_queries returns queries
\* ("ok"), returns a warning ("synthesis_failed") or raises; then the run
\* returns results.
RunQueries(outcome) ==
    /\ rpc = "queries"
    /\ outcome \in QueryOutcomes(rCfg, QueriesInput, rTrends)
    /\ rFailures' = IF outcome = "ok" THEN rFailures ELSE Append(rFailures, outcome)
    /\ rQueries' = IF rCfg.enable_curated_queries /\ outcome = "ok"
                      /\ ~(QueriesInput = <<>> /\ rTrends = <<>>)
                   THEN <<"query">> ELSE <<>>
    /\ IF outcome = "raises" /\ ~RunCatches("queries")
       THEN /\ rpc' = "raised"
            /\ UNCHANGED rWarnings
       ELSE /\ rWarnings' = IF outcome = "ok" THEN rWarnings
                            ELSE Append(rWarnings, outcome)
            /\ rpc' = "done"
    /\ UNCHANGED <<rCfg, rTop, rAt, rRedditPosts, rLowScore, rTrends>>
    /\ UNCHANGED <<store, dCache, marked>>
    /\ UNCHANGED outsideRun

InitRunIdle ==
    /\ rpc = "config"
    /\ rCfg = [enable_reddit |-> TRUE, enable_trends |-> TRUE,
               enable_curated_queries |-> TRUE, api_key |-> TRUE,
               gemini_key |-> TRUE, keywords |-> 0]
    /\ rTop = <<>>
    /\ rAt = 1
    /\ rRedditPosts = <<>>
    /\ rLowScore = <<>>
    /\ rTrends = <<>>
    /\ rQueries = <<>>
    /\ rWarnings = <<>>
    /\ rFailures = <<>>

(***************************************************************************)
(* The override merge of run_voc_discovery (voc_discovery.py:967-978).     *)
(* A configuration value is a scalar, a list or a dict.  A dict is a       *)
(* function on a fixed set of keys whose value is Absent where the dict    *)
(* does not have the key.  A scalar or a list carries the configuration it *)
(* was written in, so that a replaced value differs from the one it        *)
(* replaces.  The top-level dict has the keys TopKeys; the value of        *)
(* "google_trends" may be a dict with the keys MidKeys, whose "windows"    *)
(* may in turn be a dict with the keys LowKeys.                            *)
(***************************************************************************)
TopKeys == {"google_trends", "subreddits"}
MidKeys == {"windows", "geo"}
LowKeys == {"short", "long"}

NoDict == [k \in {} |-> 0]

Absent == [kind |-> "absent", src |-> "", d |-> NoDict]

Leaves(src) ==
    {Absent, [kind |-> "scalar", src |-> src, d |-> NoDict],
             [kind |-> "list", src |-> src, d |-> NoDict]}

Dict(d) == [kind |-> "dict", src |-> "", d |-> d]

LowDicts(src) == {Dict(d) : d \in [LowKeys -> Leaves(src)]}

MidDicts(src) ==
    {Dict(d) : d \in {f \in [MidKeys -> Leaves(src) \cup LowDicts(src)] :
                          f["geo"].kind # "dict"}}

Configs(src) ==
    {f \in [TopKeys -> Leaves(src) \cup MidDicts(src)] :
         f["subreddits"].kind # "dict"}

IsDict(v) == v.kind = "dict"

\* if segment_config: an empty override is falsy
Truthy(config) == \E k \in DOMAIN config : config[k] # Absent

\* updated = dict(b); updated.update(o)
DictUpdate(b, o) == [k \in DOMAIN b |-> IF o[k] = Absent THEN b[k] ELSE o[k]]

\* The body of the loop over segment_config.items()
MergeKey(bv, ov) ==
    IF ov = Absent THEN bv
    ELSE IF IsDict(ov) /\ IsDict(bv) THEN Dict(DictUpdate(bv.d, ov.d))
    ELSE ov

MergeConfig(base, override) ==
    IF Truthy(override)
    THEN [k \in DOMAIN base |-> MergeKey(base[k], override[k])]
    ELSE base

MergeOverrides ==
    /\ mpc = "start"
    /\ mpc' = "merged"
    /\ mMerged' = MergeConfig(mBase, mOverride)
    /\ UNCHANGED <<mBase, mOverride>>
    /\ UNCHANGED outsideMerge

InitMergeIdle ==
    /\ mpc = "merged"
    /\ mBase = [k \in TopKeys |-> Absent]
    /\ mOverride = [k \in TopKeys |-> Absent]
    /\ mMerged = [k \in TopKeys |-> Absent]

(***************************************************************************)
(* generate_curated_queries, in voc_discovery.py (738-831) and in          *)
(* voc_synthesis.py (641-757), and the generate-queries stage              *)
(* (api/intelligence_stages.py:354-419).  A post is the kind of its        *)
(* ai_analysis: a dict ("dict"), missing or falsy ("none"), or a truthy    *)
(* value that is not a dict ("nondict").  A trend signal is whether it has *)
(* a query.                                                                *)
(***************************************************************************)
MaxQueryInputs == 2

AnalysisKinds == {"dict", "none", "nondict"}
QueryPosts == UNION {[1..n -> AnalysisKinds] : n \in 0..MaxQueryInputs}
QueryTrends == UNION {[1..n -> BOOLEAN] : n \in 0..MaxQueryInputs}

\* The prompt cannot be loaded; the model call raises; the model answers
\* with empty text, a list of queries, a list without any non-blank entry,
\* a dict with a "queries" list, or any other JSON value.
QueryAnswers ==
    {"prompt_error", "raises", "empty_text", "list", "empty_list",
     "dict_queries", "other"}

\* post.get("ai_analysis") or {} is a dict unless the value is truthy and of
\* another type
PainPointLines(posts) == {k \in 1..Len(posts) : posts[k] # "nondict"}

TrendsLines(trends) == {k \in 1..Len(trends) : trends[k]}

QueryResult(queries, warnings, calls) ==
    [queries |-> queries, warnings |-> warnings, calls |-> calls]

NoQueryResult == QueryResult(<<>>, <<>>, 0)

\* voc_discovery.generate_curated_queries: the client is looked up first.
CuratedQueriesDiscovery(client, posts, trends, answer) ==
    IF ~client THEN QueryResult(<<>>, <<"nokey">>, 0)
    ELSE IF PainPointLines(posts) = {} /\ TrendsLines(trends) = {} THEN NoQueryResult
    ELSE IF answer = "prompt_error" THEN QueryResult(<<>>, <<"prompt">>, 0)
    ELSE IF answer = "raises" THEN QueryResult(<<>>, <<"failed">>, 1)
    ELSE IF answer \in {"empty_text", "empty_list"} THEN QueryResult(<<>>, <<>>, 1)
    ELSE IF answer = "list" THEN QueryResult(<<"query">>, <<>>, 1)
    ELSE QueryResult(<<>>, <<"structure">>, 1)

\* voc_synthesis.generate_curated_queries: the client is an argument and is
\* used only after the short-circuit; GeminiClient raises GeminiClientError
\* when the key is missing, the prompt is missing or the text is empty.
CuratedQueriesSynthesis(client, posts, trends, answer) ==
    IF PainPointLines(posts) = {} /\ TrendsLines(trends) = {} THEN NoQueryResult
    ELSE IF ~client \/ answer = "prompt_error" THEN QueryResult(<<>>, <<"failed">>, 0)
    ELSE IF answer \in {"raises", "empty_text"} THEN QueryResult(<<>>, <<"failed">>, 1)
    ELSE IF answer \in {"list", "dict_queries"} THEN QueryResult(<<"query">>, <<>>, 1)
    ELSE IF answer = "empty_list" THEN QueryResult(<<>>, <<>>, 1)
    ELSE QueryResult(<<>>, <<"structure">>, 1)

CallDiscoveryQueries ==
    /\ qpc = "start" /\ qCall = "discovery"
    /\ qpc' = "returned"
    /\ qResult' = CuratedQueriesDiscovery(qClient, qPosts, qTrends, qAnswer)
    /\ UNCHANGED <<qCall, qClient, qPosts, qTrends, qAnswer, qName, qConfigOk,
                   qSynth, qFake, qResp>>
    /\ UNCHANGED outsideQueries

CallSynthesisQueries ==
    /\ qpc = "start" /\ qCall = "synthesis"
    /\ qpc' = "returned"
    /\ qResult' = CuratedQueriesSynthesis(qClient, qPosts, qTrends, qAnswer)
    /\ UNCHANGED <<qCall, qClient, qPosts, qTrends, qAnswer, qName, qConfigOk,
                   qSynth, qFake, qResp>>
    /\ UNCHANGED outsideQueries

\* The keyword arguments of the stage's call, and the parameters of
\* voc_synthesis.generate_curated_queries (all of them required).
StageKeywords == {"filtered_posts", "trends_data", "segment_config", "gemini_client"}

SynthesisParameters ==
    {"analyzed_posts", "trends_data", "segment_config", "segment_name", "gemini_client"}

\* The functions the stage's name generate_curated_queries is bound to: the
\* import ("real"), or one of the doubles of tests/test_intelligence_stages.py,
\* which take **kwargs: the first reads kwargs["segment_name"], the second
\* reads nothing.
Synthesizers == {"real", "fake_checks_name", "fake_any"}

FakePairs ==
    {<<qs, ws>> : qs \in {<<>>, <<"q1">>, <<"q1", "q2">>}, ws \in {<<>>, <<"w">>}}

\* The call raises TypeError or KeyError instead of returning.
SynthesizerCallRaises(synth) ==
    \/ synth = "real" /\ StageKeywords # SynthesisParameters
    \/ synth = "fake_checks_name" /\ "segment_name" \notin StageKeywords

StageResponse(status, shape, first, second, count) ==
    [status |-> status,
     queries |-> [shape |-> shape, first |-> first, second |-> second],
     has_warnings |-> FALSE,
     warnings |-> <<>>,
     count |-> count]

NoResponse == StageResponse(0, "none", <<>>, <<>>, 0)

\* generate_queries: 400 without segment_name; any exception gives 500;
\* otherwise the synthesizer's return value, a pair, is the "queries" of
\* the body and its length the "count"; the body has no "warnings".
GenerateQueriesStage ==
    /\ qpc = "start" /\ qCall = "stage"
    /\ qpc' = "returned"
    /\ qResp' =
          IF ~qName THEN StageResponse(400, "none", <<>>, <<>>, 0)
          ELSE IF ~qConfigOk \/ SynthesizerCallRaises(qSynth)
               THEN StageResponse(500, "none", <<>>, <<>>, 0)
          ELSE StageResponse(200, "pair", qFake[1], qFake[2], Len(qFake))
    /\ UNCHANGED <<qCall, qClient, qPosts, qTrends, qAnswer, qName, qConfigOk,
                   qSynth, qFake, qResult>>
    /\ UNCHANGED outsideQueries

InitQueriesIdle ==
    /\ qpc = "returned"
    /\ qCall = "discovery"
    /\ qClient = TRUE
    /\ qPosts = <<>>
    /\ qTrends = <<>>
    /\ qAnswer = "list"
    /\ qName = TRUE
    /\ qConfigOk = TRUE
    /\ qSynth = "real"
    /\ qFake = <<<<>>, <<>>>>
    /\ qResult = NoQueryResult
    /\ qResp = NoResponse

(***************************************************************************)
(* The enrichment of one post: RedditDataCollector.enrich_post             *)
(* (voc_reddit.py:362-445) and get_post_details_and_score                  *)
(* (voc_discovery.py:627-735).  The ai_analysis of a post is "none" or the *)
(* kind of the model output that was attached to it.                       *)
(***************************************************************************)
\* The prompt cannot be loaded; the call raises; the text is empty; the text
\* is no JSON; the JSON is no dict; the dict lacks a required key; its
\* relevance_score is no number; the dict is a well-formed analysis.
EnrichOutputs ==
    {"prompt_error", "api_error", "empty", "unparsable", "list",
     "dict_missing_keys", "dict_bad_score", "valid"}

EnrichResult(analysis, warnings) == [ai_analysis |-> analysis, warnings |-> warnings]

\* The comments request is made for a post with a url; a RequestException
\* adds a warning.
CommentWarnings(url, comments) ==
    IF url /\ comments = "fails" THEN <<"comments">> ELSE <<>>

\* _validate_reddit_analysis_response
ValidateRedditAnalysisResponse(output) == output = "valid"

\* enrich_post: any dict the model returns is attached; GeminiClientError
\* (no key, no prompt, API error, empty or undecodable text) is caught.
EnrichPost(url, comments, gemini, output) ==
    IF ~gemini \/ output \in {"prompt_error", "api_error", "empty", "unparsable"}
    THEN EnrichResult("none", Append(CommentWarnings(url, comments), "failed"))
    ELSE IF output = "list"
    THEN EnrichResult("none", Append(CommentWarnings(url, comments), "structure"))
    ELSE EnrichResult(output, CommentWarnings(url, comments))

\* get_post_details_and_score
GetPostDetailsAndScore(apiKey, url, comments, gemini, output) ==
    IF ~apiKey THEN EnrichResult("none", <<"noapikey">>)
    ELSE IF ~gemini
    THEN EnrichResult("none", Append(CommentWarnings(url, comments), "nogemini"))
    ELSE IF output = "prompt_error"
    THEN EnrichResult("none", Append(CommentWarnings(url, comments), "prompt"))
    ELSE IF output \in {"api_error", "unparsable"}
    THEN EnrichResult("none", Append(CommentWarnings(url, comments), "failed"))
    ELSE IF output = "empty"
    THEN EnrichResult("none", Append(CommentWarnings(url, comments), "empty"))
    ELSE IF ~ValidateRedditAnalysisResponse(output)
    THEN EnrichResult("none", Append(CommentWarnings(url, comments), "invalid"))
    ELSE EnrichResult(output, CommentWarnings(url, comments))

\* enrich_post writes post["ai_analysis"] of the caller's dict and returns it.
EnrichPostCall ==
    /\ epc = "start" /\ eImpl = "reddit"
    /\ epc' = "returned"
    /\ eResult' = EnrichPost(eUrl, eComments, eGemini, eOutput)
    /\ ePost' = eResult'.ai_analysis
    /\ UNCHANGED <<eImpl, eApiKey, eGemini, eUrl, eComments, eOutput>>
    /\ UNCHANGED outsideEnrich

\* get_post_details_and_score works on enriched_post = dict(post).
GetPostDetailsAndScoreCall ==
    /\ epc = "start" /\ eImpl = "discovery"
    /\ epc' = "returned"
    /\ eResult' = GetPostDetailsAndScore(eApiKey, eUrl, eComments, eGemini, eOutput)
    /\ UNCHANGED <<eImpl, eApiKey, eGemini, eUrl, eComments, eOutput, ePost>>
    /\ UNCHANGED outsideEnrich

InitEnrichIdle ==
    /\ epc = "returned"
    /\ eImpl = "reddit"
    /\ eApiKey = TRUE
    /\ eGemini = TRUE
    /\ eUrl = FALSE
    /\ eComments = "ok"
    /\ eOutput = "valid"
    /\ ePost = "none"
    /\ eResult = EnrichResult("none", <<>>)

(***************************************************************************)
(* pre_score_posts, voc_synthesis.py: one pre_score_post call per input    *)
(* post, submitted to a ThreadPoolExecutor of max_workers threads and      *)
(* collected with as_completed.  A future is "pending" (queued), "running" *)
(* or finished: "ok" (a PreScoreResult), "gemini_error" (GeminiClientError)*)
(* or "error" (any other exception).  A post is known by its position in   *)
(* the input.                                                              *)
(***************************************************************************)
PoolPosts == UNION {[1..n -> 1..2] : n \in 0..MaxPoolPosts}

PoolOutcomes == {"ok", "gemini_error", "error"}

\* The futures a worker thread is executing.
PoolRunning == {i \in 1..Len(wPosts) : wFuture[i] = "running"}

\* The futures as_completed has yielded.
PoolCollected == {wOrder[k] : k \in 1..Len(wOrder)}

\* scored_posts.sort(key=lambda item: item.get("_prescore_index", 0))
RECURSIVE InsertByIndex(_, _)
InsertByIndex(p, sorted) ==
    IF sorted = <<>> THEN <<p>>
    ELSE IF Head(sorted).post <= p.post
         THEN <<Head(sorted)>> \o InsertByIndex(p, Tail(sorted))
         ELSE <<p>> \o sorted

RECURSIVE SortByIndexOf(_)
SortByIndexOf(scored) ==
    IF scored = <<>> THEN <<>>
    ELSE InsertByIndex(scored[Len(scored)],
                       SortByIndexOf(SubSeq(scored, 1, Len(scored) - 1)))

SortByIndexNone(scored) == scored

SortByIndex(scored) == SortByIndexOf(scored)

CollectWarningsGeminiOnly(warnings, post_id, outcome) ==
    IF outcome = "gemini_error"
    THEN Append(warnings, [post_id |-> post_id, kind |-> outcome])
    ELSE warnings

\* except GeminiClientError / except Exception: one warning naming the post.
CollectWarnings(warnings, post_id, outcome) ==
    IF outcome = "ok" THEN warnings
    ELSE Append(warnings, [post_id |-> post_id, kind |-> outcome])

\* enriched_post = original_post.copy() with its prescore and _prescore_index.
CollectScored(scored, i, post_id, outcome) ==
    IF outcome = "ok" THEN Append(scored, [post |-> i, id |-> post_id])
    ELSE scored

\* A worker thread takes the next queued call.
PoolStart(i) ==
    /\ wpc = "collecting"
    /\ i \in 1..Len(wPosts)
    /\ wFuture[i] = "pending"
    /\ \A j \in 1..(i - 1) : wFuture[j] # "pending"
    /\ Cardinality(PoolRunning) < wWorkers
    /\ wFuture' = [wFuture EXCEPT ![i] = "running"]
    /\ UNCHANGED <<wpc, wWorkers, wPosts, wOrder, wScored, wWarnings>>
    /\ UNCHANGED outsidePool

\* pre_score_post returns or raises.
PoolFinish(i, outcome) ==
    /\ wpc = "collecting"
    /\ i \in 1..Len(wPosts)
    /\ wFuture[i] = "running"
    /\ wFuture' = [wFuture EXCEPT ![i] = outcome]
    /\ UNCHANGED <<wpc, wWorkers, wPosts, wOrder, wScored, wWarnings>>
    /\ UNCHANGED outsidePool

\* One iteration of "for future in as_completed(future_map)".
PoolCollect(i) ==
    /\ wpc = "collecting"
    /\ i \in 1..Len(wPosts)
    /\ wFuture[i] \in PoolOutcomes
    /\ i \notin PoolCollected
    /\ wOrder' = Append(wOrder, i)
    /\ wScored' = CollectScored(wScored, i, wPosts[i], wFuture[i])
    /\ wWarnings' = CollectWarnings(wWarnings, wPosts[i], wFuture[i])
    /\ UNCHANGED <<wpc, wWorkers, wPosts, wFuture>>
    /\ UNCHANGED outsidePool

\* After the loop (at once for an empty input): sort, return.
PoolReturn ==
    /\ wpc = "collecting"
    /\ Len(wOrder) = Len(wPosts)
    /\ wScored' = SortByIndex(wScored)
    /\ wpc' = "returned"
    /\ UNCHANGED <<wWorkers, wPosts, wFuture, wOrder, wWarnings>>
    /\ UNCHANGED outsidePool

InitPoolIdle ==
    /\ wpc = "returned"
    /\ wWorkers = 1
    /\ wPosts = <<>>
    /\ wFuture = <<>>
    /\ wOrder = <<>>
    /\ wScored = <<>>
    /\ wWarnings = <<>>

(***************************************************************************)
(* Concurrent callers of the history of one segment: two marks that carry  *)
(* the same post id and one load, run by threads that share the cache      *)
(* (_local_dedupe_cache of voc_discovery.py, self._cache of one            *)
(* RedditHistoryStore).  A thread switch can fall between any two          *)
(* statements; a dict or set operation is one step.  The commits and the   *)
(* reads of Firestore succeed here: what is left is the interleaving.      *)
(*                                                                         *)
(* The cache entry of the segment is a reference to a set object of the    *)
(* heap, 0 while the segment is not a key of the cache.                    *)
(***************************************************************************)
Callers == {"A", "B", "L"}

CallOf(t) == IF t = "L" THEN "load" ELSE "mark"

\* The ids both marks carry.
MarkIds == {1}

\* Where a call starts.
FirstStep(impl, client, call) ==
    IF impl = "discovery"
    THEN IF client THEN (IF call = "mark" THEN "commit" ELSE "stream") ELSE "check"
    ELSE IF call = "mark" THEN "setdefault" ELSE "present"

\* The set the segment's cache entry refers to.
CachedIds == IF cCache = 0 THEN {} ELSE cHeap[cCache]

\* What a load of the segment returns once every caller has returned.
HistoryIds ==
    IF cImpl = "discovery"
    THEN IF cClient THEN cDocs ELSE CachedIds
    ELSE IF cCache # 0 THEN CachedIds
         ELSE IF cClient THEN cDocs ELSE {}

AllReturned == \A t \in Callers : cThread[t].pc = "done"

Goto(t, pc) == [cThread EXCEPT ![t].pc = pc]

\* batch.commit(): the documents of the ids are set.
MarkCommit(t) ==
    /\ cThread[t].pc = "commit"
    /\ cDocs' = cDocs \cup MarkIds
    /\ cThread' = Goto(t, IF cImpl = "discovery" THEN "check" ELSE "done")
    /\ UNCHANGED <<cImpl, cClient, cPrior, cCache, cHeap>>
    /\ UNCHANGED outsideMarks

\* _get_local_cache: if segment_name not in _local_dedupe_cache
CacheCheck(t) ==
    /\ cThread[t].pc = "check"
    /\ cThread' = Goto(t, IF cCache = 0 THEN "assign" ELSE "lookup")
    /\ UNCHANGED <<cImpl, cClient, cPrior, cDocs, cCache, cHeap>>
    /\ UNCHANGED outsideMarks

\* _get_local_cache: _local_dedupe_cache[segment_name] = set()
CacheAssign(t) ==
    /\ cThread[t].pc = "assign"
    /\ cHeap' = Append(cHeap, {})
    /\ cCache' = Len(cHeap) + 1
    /\ cThread' = Goto(t, "lookup")
    /\ UNCHANGED <<cImpl, cClient, cPrior, cDocs>>
    /\ UNCHANGED outsideMarks

\* _get_local_cache: return _local_dedupe_cache[segment_name]
CacheLookup(t) ==
    /\ cThread[t].pc = "lookup"
    /\ cThread' = [cThread EXCEPT ![t].ref = cCache,
                                  ![t].pc = IF CallOf(t) = "mark" THEN "update"
                                            ELSE "copy"]
    /\ UNCHANGED <<cImpl, cClient, cPrior, cDocs, cCache, cHeap>>
    /\ UNCHANGED outsideMarks

\* cache.update(ids) on the set the caller holds.
CacheUpdate(t) ==
    /\ cThread[t].pc = "update"
    /\ cHeap' = [cHeap EXCEPT ![cThread[t].ref] = @ \cup MarkIds]
    /\ cThread' = Goto(t, IF cImpl = "store" /\ cClient THEN "commit" ELSE "done")
    /\ UNCHANGED <<cImpl, cClient, cPrior, cDocs, cCache>>
    /\ UNCHANGED outsideMarks

\* return set(cache): the load returns a copy of the set it holds.
LoadCopy(t) ==
    /\ cThread[t].pc = "copy"
    /\ cThread' = [cThread EXCEPT ![t].seen = cHeap[cThread[t].ref],
                                  ![t].pc = "done"]
    /\ UNCHANGED <<cImpl, cClient, cPrior, cDocs, cCache, cHeap>>
    /\ UNCHANGED outsideMarks

\* RedditHistoryStore.load: if segment_name in self._cache
StorePresent(t) ==
    /\ cThread[t].pc = "present"
    /\ cThread' = [cThread EXCEPT ![t].ref = cCache,
                                  ![t].pc = IF cCache # 0 THEN "copy"
                                            ELSE IF cClient THEN "stream"
                                            ELSE "setdefault"]
    /\ UNCHANGED <<cImpl, cClient, cPrior, cDocs, cCache, cHeap>>
    /\ UNCHANGED outsideMarks

\* self._cache.setdefault(segment_name, set()): one dict operation.  The load
\* without a client then returns set(), the mark goes on to update the set.
StoreSetdefault(t) ==
    /\ cThread[t].pc = "setdefault"
    /\ IF cCache = 0
       THEN /\ cHeap' = Append(cHeap, {})
            /\ cCache' = Len(cHeap) + 1
       ELSE UNCHANGED <<cHeap, cCache>>
    /\ cThread' = [cThread EXCEPT ![t].ref = cCache',
                                  ![t].pc = IF CallOf(t) = "mark" THEN "update"
                                            ELSE "done"]
    /\ UNCHANGED <<cImpl, cClient, cPrior, cDocs>>
    /\ UNCHANGED outsideMarks

\* for doc in collection.stream(): the ids of the stored documents.
LoadStream(t) ==
    /\ cThread[t].pc = "stream"
    /\ cThread' = [cThread EXCEPT ![t].seen = cDocs, ![t].pc = "replace"]
    /\ UNCHANGED <<cImpl, cClient, cPrior, cDocs, cCache, cHeap>>
    /\ UNCHANGED outsideMarks

\* _local_dedupe_cache[segment_name] = processed_ids, resp.
\* self._cache[segment_name] = processed: the entry now refers to the new set.
LoadReplace(t) ==
    /\ cThread[t].pc = "replace"
    /\ cHeap' = Append(cHeap, cThread[t].seen)
    /\ cCache' = Len(cHeap) + 1
    /\ cThread' = Goto(t, "done")
    /\ UNCHANGED <<cImpl, cClient, cPrior, cDocs>>
    /\ UNCHANGED outsideMarks

InitMarksIdle ==
    /\ cImpl = "discovery"
    /\ cClient = FALSE
    /\ cPrior = {}
    /\ cDocs = {}
    /\ cCache = 0
    /\ cHeap = <<>>
    /\ cThread = <<>>

(***************************************************************************)
(* The writes of one mark: every id is added to one batch with batch.set   *)
(* and the batch is committed once.  The ids are known by their number.    *)
(***************************************************************************)
\* The number of documents of each commit a mark of n ids issues.
CommitSizes(client, n) ==
    IF n = 0 \/ ~client THEN <<>> ELSE <<n>>

\* _mark_posts_processed / RedditHistoryStore.mark
MarkBatch ==
    /\ bpc = "start"
    /\ bCommits' = CommitSizes(bClient, bIds)
    /\ bpc' = "returned"
    /\ UNCHANGED <<bImpl, bClient, bIds>>
    /\ UNCHANGED outsideBatch

InitBatchIdle ==
    /\ bpc = "returned"
    /\ bImpl = "discovery"
    /\ bClient = FALSE
    /\ bIds = 0
    /\ bCommits = <<>>

(***************************************************************************)
(* The payload normalisation on its own: the raw posts each collector      *)
(* reads from a response body of a given shape.                            *)
(***************************************************************************)
\* The bodies: a shape and the posts it carries.
BodiesOf(shape) == IF shape = "empty" THEN {<<>>} ELSE Listings

NormalizePayload ==
    /\ ~nPosts.called
    /\ nPosts' = [called |-> TRUE, posts |-> RawPostsOf(nImpl, nShape, nListing)]
    /\ UNCHANGED <<nImpl, nShape, nListing>>
    /\ UNCHANGED outsideNorm

InitNormIdle ==
    /\ nImpl = "discovery"
    /\ nShape = "empty"
    /\ nListing = <<>>
    /\ nPosts = [called |-> FALSE, posts |-> <<>>]

(***************************************************************************)
(* The session endpoints, api/intelligence/sessions.py (the package the    *)
(* application imports) and api/intelligence.py (the module of the same    *)
(* name).  The session exists: create_session made it with status          *)
(* "queries_ready" and every query selected, which needs the researcher,   *)
(* so the researcher is available.  Requests are served one at a time.     *)
(***************************************************************************)
SessionResponse(op, code) == [op |-> op, code |-> code]

SelectedOf(flags) == {k \in 1..Len(flags) : flags[k]}

\* What the search leaves besides the status: "ok" with the number of sources
\* Tavily found (a failed Tavily call gives none), or an exception while the
\* results are turned into sources.
SearchOutcomes ==
    {[kind |-> "ok", sources |-> m] : m \in 0..MaxSessionSources}
    \cup {[kind |-> "raises", sources |-> 0]}

\* "ok"; "no_passages": no selected source could be scraped; "raises": the
\* scrape or the synthesis raised.
AnalyzeOutcomes == {"ok", "no_passages", "raises"}

\* session["status"] after the 400 answer "No queries selected" / "No sources
\* selected for analysis": sessions.py resets it, intelligence.py returns.
AfterNothingSelected(impl, transient, previous) ==
    IF impl = "sessions" THEN previous ELSE transient

\* update_queries
UpdateQueries(k, selected) ==
    /\ k \in 1..Len(sQueries)
    /\ sQueries' = [sQueries EXCEPT ![k] = selected]
    /\ sResp' = SessionResponse("queries", 200)
    /\ UNCHANGED <<sImpl, sStatus, sSources>>
    /\ UNCHANGED outsideSession

\* search_queries
SearchQueries(outcome) ==
    /\ IF SelectedOf(sQueries) = {}
       THEN /\ sStatus' = AfterNothingSelected(sImpl, "searching", "queries_ready")
            /\ sResp' = SessionResponse("search", 400)
            /\ UNCHANGED sSources
       ELSE IF outcome.kind = "ok"
       THEN /\ sSources' = [k \in 1..outcome.sources |-> TRUE]
            /\ sStatus' = "search_complete"
            /\ sResp' = SessionResponse("search", 200)
       ELSE /\ sStatus' = "queries_ready"
            /\ sResp' = SessionResponse("search", 500)
            /\ UNCHANGED sSources
    /\ UNCHANGED <<sImpl, sQueries>>
    /\ UNCHANGED outsideSession

\* update_sources
UpdateSources(k, selected) ==
    /\ k \in 1..Len(sSources)
    /\ sSources' = [sSources EXCEPT ![k] = selected]
    /\ sResp' = SessionResponse("sources", 200)
    /\ UNCHANGED <<sImpl, sStatus, sQueries>>
    /\ UNCHANGED outsideSession

\* analyze_sources
AnalyzeSources(outcome) ==
    /\ IF SelectedOf(sSources) = {}
       THEN /\ sStatus' = AfterNothingSelected(sImpl, "analyzing", "search_complete")
            /\ sResp' = SessionResponse("analyze", 400)
       ELSE IF outcome = "ok"
       THEN /\ sStatus' = "complete"
            /\ sResp' = SessionResponse("analyze", 200)
       ELSE /\ sStatus' = "search_complete"
            /\ sResp' = SessionResponse("analyze", 500)
    /\ UNCHANGED <<sImpl, sQueries, sSources>>
    /\ UNCHANGED outsideSession

InitSessionIdle ==
    /\ sImpl = "sessions"
    /\ sStatus = "queries_ready"
    /\ sQueries = <<>>
    /\ sSources = <<>>
    /\ sResp = [op |-> "none", code |-> 0]

InitLateIdle ==
    /\ InitPoolIdle
    /\ InitMarksIdle
    /\ InitBatchIdle
    /\ InitNormIdle
    /\ InitSessionIdle

InitAuxIdle == InitMergeIdle /\ InitQueriesIdle /\ InitEnrichIdle /\ InitLateIdle

InitHist ==
    /\ hImpl \in {"discovery", "store"}
    /\ fsClient \in BOOLEAN
    /\ store \in [Segments -> SUBSET PostIds]
    /\ dCache = [s \in Segments |-> {}]
    /\ hKeys = {}
    /\ hCache = [s \in Segments |-> {}]
    /\ marked = [s \in Segments |-> {}]
    /\ ret = NoCall

InitFetchIdle ==
    /\ fpc = "idle"
    /\ filters = [min_score |-> 0, min_comments |-> 0]
    /\ fSub = 1
    /\ processedIds = {}
    /\ curated = <<>>
    /\ fWarnings = <<>>
    /\ fSeen = {}
    /\ handled = {}

InitHistory ==
    InitHist /\ InitFetchIdle /\ InitFilterIdle /\ InitPrescoreIdle /\ InitTrendsIdle
    /\ InitRunIdle
    /\ InitAuxIdle

InitFetch ==
    /\ InitHist
    /\ fpc = "idle"
    /\ filters \in FilterConfigs
    /\ fSub = 1
    /\ processedIds = {}
    /\ curated = <<>>
    /\ fWarnings = <<>>
    /\ fSeen = {}
    /\ handled = {}
    /\ InitFilterIdle
    /\ InitPrescoreIdle
    /\ InitTrendsIdle
    /\ InitRunIdle
    /\ InitAuxIdle

NextHistory ==
    \/ \E seg \in Segments, readOk \in BOOLEAN : DLoad(seg, readOk)
    \/ \E seg \in Segments, ids \in SUBSET RawIds, commitOk \in BOOLEAN :
          DMark(seg, ids, commitOk)
    \/ HCreate
    \/ \E seg \in Segments, readOk \in BOOLEAN : HLoad(seg, readOk)
    \/ \E seg \in Segments, ids \in SUBSET RawIds, commitOk \in BOOLEAN :
          HMark(seg, ids, commitOk)

SpecHistory == InitHistory /\ [][NextHistory]_vars

\* The bodies the subreddit loop is given: "data" is read as "posts" is and
\* "children" as "array" is, and a body that is not read gives no raw post
\* whatever it lists, so those shapes come with the empty listing only.
ListingsOf(shape) == IF shape \in {"posts", "array"} THEN Listings ELSE {<<>>}

NextFetch ==
    \/ \E seg \in Segments, readOk \in BOOLEAN : FetchStart(seg, readOk)
    \/ \E seg \in Segments : FetchSubredditFails(seg)
    \/ \E seg \in Segments, shape \in Shapes :
          \E listing \in ListingsOf(shape) : FetchSubreddit(seg, shape, listing)
    \/ FetchNewStore

SpecFetch == InitFetch /\ [][NextFetch]_vars

InitRedditIdle ==
    /\ hImpl = "store"
    /\ fsClient = FALSE
    /\ store = [s \in Segments |-> {}]
    /\ dCache = [s \in Segments |-> {}]
    /\ hKeys = {}
    /\ hCache = [s \in Segments |-> {}]
    /\ marked = [s \in Segments |-> {}]
    /\ ret = NoCall
    /\ InitFetchIdle

InitFilter ==
    /\ InitRedditIdle
    /\ flCalled = FALSE
    /\ flPosts \in FilterInputs
    /\ flPostsAfter = flPosts
    /\ flMin \in FilterMinScores
    /\ flAccepted = <<>>
    /\ flRejected = <<>>
    /\ InitPrescoreIdle
    /\ InitTrendsIdle
    /\ InitRunIdle
    /\ InitAuxIdle

NextFilter == FilterCall

SpecFilter == InitFilter /\ [][NextFilter]_vars

InitPrescore ==
    /\ InitRedditIdle
    /\ InitFilterIdle
    /\ psOp = "none"
    /\ psPosts \in PrescoreInputs
    /\ psResp \in Responses
    /\ psScored = <<>>
    /\ psRejectedLow = <<>>
    /\ psWarnings = <<>>
    /\ psRaised = FALSE
    /\ InitTrendsIdle
    /\ InitRunIdle
    /\ InitAuxIdle

NextPrescore ==
    \/ PrescoreDiscovery
    \/ PrescoreSynthesis

SpecPrescore == InitPrescore /\ [][NextPrescore]_vars

InitTrends ==
    /\ InitRedditIdle
    /\ InitFilterIdle
    /\ InitPrescoreIdle
    /\ tpc = "idle"
    /\ tKeywords \in KeywordLists
    /\ tKw = 1
    /\ tAttempt = 0
    /\ tDelay = retry_delay
    /\ tLog = [k \in 1..Len(tKeywords) |-> <<>>]
    /\ tSleeps = [k \in 1..Len(tKeywords) |-> <<>>]
    /\ tTrends = <<>>
    /\ tWarnings = <<>>
    /\ InitRunIdle
    /\ InitAuxIdle

NextTrends ==
    \/ TrendsStart
    \/ \E outcome \in {"data", "empty"} : TrendsAttemptSucceeds(outcome)
    \/ \E outcome \in Failures : TrendsAttemptFails(outcome)

SpecTrends == InitTrends /\ [][NextTrends]_vars

InitRunOf(configs) ==
    /\ hImpl = "discovery"
    /\ fsClient = FALSE
    /\ store = [s \in Segments |-> {}]
    /\ dCache = [s \in Segments |-> {}]
    /\ hKeys = {}
    /\ hCache = [s \in Segments |-> {}]
    /\ marked = [s \in Segments |-> {}]
    /\ ret = NoCall
    /\ InitFetchIdle
    /\ InitFilterIdle
    /\ InitPrescoreIdle
    /\ InitTrendsIdle
    /\ rpc = "config"
    /\ rCfg \in configs
    /\ rTop = <<>>
    /\ rAt = 1
    /\ rRedditPosts = <<>>
    /\ rLowScore = <<>>
    /\ rTrends = <<>>
    /\ rQueries = <<>>
    /\ rWarnings = <<>>
    /\ rFailures = <<>>
    /\ InitAuxIdle

InitRun == InitRunOf(RunConfigs)

NextRun ==
    \/ \E ok \in BOOLEAN : RunLoadConfig(ok)
    \/ RunRedditSkipped
    \/ RunRedditFetchRaises
    \/ \E subFails \in 0..1, fetched \in RunFetched,
          kept \in 0..MaxRunPosts :
          \E resp \in PrescoreAnswers(rCfg, kept) :
              RunRedditFetched(subFails, fetched, kept, resp)
    \/ \E outcome \in {"ok", "ai_failed", "raises"} : RunEnrichPost(outcome)
    \/ RunTrendsSkipped
    \/ \E outcome \in LookupOutcomes :
          RunTrendKeyword(outcome)
    \/ \E outcome \in {"ok", "synthesis_failed", "raises"} : RunQueries(outcome)

SpecRun == InitRun /\ [][NextRun]_vars

\* The run is one thread: a step that can be taken is eventually taken.
SpecRunFair == SpecRun /\ WF_vars(NextRun)

\* The runs of a segment whose configuration disables Reddit, with the rate
\* limit of a lookup told apart from its other failures.
InitRunTrends == InitRunOf(TrendsRunConfigs)

NextRunTrends ==
    \/ \E ok \in BOOLEAN : RunLoadConfig(ok)
    \/ RunRedditSkipped
    \/ RunTrendsSkipped
    \/ \E outcome \in TrendOutcomes : RunTrendKeyword(outcome)
    \/ \E outcome \in {"ok", "synthesis_failed", "raises"} : RunQueries(outcome)

SpecRunTrends == InitRunTrends /\ [][NextRunTrends]_vars

InitCoreIdle ==
    /\ InitRedditIdle
    /\ InitFilterIdle
    /\ InitPrescoreIdle
    /\ InitTrendsIdle
    /\ InitRunIdle

InitEarlyIdle ==
    /\ InitCoreIdle
    /\ InitMergeIdle
    /\ InitQueriesIdle
    /\ InitEnrichIdle

InitMerge ==
    /\ InitCoreIdle
    /\ InitQueriesIdle
    /\ InitEnrichIdle
    /\ InitLateIdle
    /\ mpc = "start"
    /\ mBase \in Configs("base")
    /\ mOverride \in Configs("override")
    /\ mMerged = mBase

NextMerge == MergeOverrides

SpecMerge == InitMerge /\ [][NextMerge]_vars

InitQueries ==
    /\ InitCoreIdle
    /\ InitMergeIdle
    /\ InitEnrichIdle
    /\ InitLateIdle
    /\ qpc = "start"
    /\ qCall \in {"discovery", "synthesis", "stage"}
    /\ qPosts \in QueryPosts
    /\ qTrends \in QueryTrends
    /\ IF qCall = "stage"
       THEN /\ qClient = TRUE
            /\ qAnswer = "list"
            /\ qName \in BOOLEAN
            /\ qConfigOk \in BOOLEAN
            /\ qSynth \in Synthesizers
            /\ qFake \in IF qSynth = "real" THEN {<<<<>>, <<>>>>} ELSE FakePairs
       ELSE /\ qClient \in BOOLEAN
            /\ qAnswer \in QueryAnswers
            /\ qName = TRUE
            /\ qConfigOk = TRUE
            /\ qSynth = "real"
            /\ qFake = <<<<>>, <<>>>>
    /\ qResult = NoQueryResult
    /\ qResp = NoResponse

NextQueries ==
    \/ CallDiscoveryQueries
    \/ CallSynthesisQueries
    \/ GenerateQueriesStage

SpecQueries == InitQueries /\ [][NextQueries]_vars

InitEnrich ==
    /\ InitCoreIdle
    /\ InitMergeIdle
    /\ InitQueriesIdle
    /\ InitLateIdle
    /\ epc = "start"
    /\ eImpl \in {"reddit", "discovery"}
    /\ eApiKey \in BOOLEAN
    /\ eGemini \in BOOLEAN
    /\ eUrl \in BOOLEAN
    /\ eComments \in {"ok", "fails"}
    /\ eOutput \in EnrichOutputs
    /\ ePost = "none"
    /\ eResult = EnrichResult("none", <<>>)

NextEnrich ==
    \/ EnrichPostCall
    \/ GetPostDetailsAndScoreCall

SpecEnrich == InitEnrich /\ [][NextEnrich]_vars

InitPool ==
    /\ InitEarlyIdle
    /\ InitMarksIdle
    /\ InitBatchIdle
    /\ InitNormIdle
    /\ InitSessionIdle
    /\ wpc = "collecting"
    /\ wWorkers \in 1..MaxPoolWorkers
    /\ wPosts \in PoolPosts
    /\ wFuture = [i \in 1..Len(wPosts) |-> "pending"]
    /\ wOrder = <<>>
    /\ wScored = <<>>
    /\ wWarnings = <<>>

NextPool ==
    \/ \E i \in 1..MaxPoolPosts : PoolStart(i)
    \/ \E i \in 1..MaxPoolPosts, outcome \in PoolOutcomes : PoolFinish(i, outcome)
    \/ \E i \in 1..MaxPoolPosts : PoolCollect(i)
    \/ PoolReturn

SpecPool == InitPool /\ [][NextPool]_vars

\* The history before the callers start: nothing or the id 2, in Firestore when
\* a client is configured, and the cache holding it or not loaded yet.  A store
\* object with earlier ids has loaded them: fetch_posts loads before anything
\* else.
InitMarks ==
    /\ InitEarlyIdle
    /\ InitPoolIdle
    /\ InitBatchIdle
    /\ InitNormIdle
    /\ InitSessionIdle
    /\ cImpl \in {"discovery", "store"}
    /\ cClient \in BOOLEAN
    /\ cPrior \in {{}, {2}}
    /\ cDocs = IF cClient THEN cPrior ELSE {}
    /\ \E cached \in BOOLEAN :
        /\ (cImpl = "store" \/ ~cClient) /\ cPrior # {} => cached
        /\ cCache = IF cached THEN 1 ELSE 0
        /\ cHeap = IF cached THEN <<cPrior>> ELSE <<>>
    /\ cThread = [t \in Callers |->
                    [pc |-> FirstStep(cImpl, cClient, CallOf(t)), ref |-> 0, seen |-> {}]]

NextMarks ==
    \E t \in Callers :
        \/ MarkCommit(t)
        \/ CacheCheck(t)
        \/ CacheAssign(t)
        \/ CacheLookup(t)
        \/ CacheUpdate(t)
        \/ LoadCopy(t)
        \/ StorePresent(t)
        \/ StoreSetdefault(t)
        \/ LoadStream(t)
        \/ LoadReplace(t)

SpecMarks == InitMarks /\ [][NextMarks]_vars

InitBatch ==
    /\ InitEarlyIdle
    /\ InitPoolIdle
    /\ InitMarksIdle
    /\ InitNormIdle
    /\ InitSessionIdle
    /\ bpc = "start"
    /\ bImpl \in {"discovery", "store"}
    /\ bClient \in BOOLEAN
    /\ bIds \in 0..MaxMarkIds
    /\ bCommits = <<>>

NextBatch == MarkBatch

SpecBatch == InitBatch /\ [][NextBatch]_vars

InitNorm ==
    /\ InitEarlyIdle
    /\ InitPoolIdle
    /\ InitMarksIdle
    /\ InitBatchIdle
    /\ InitSessionIdle
    /\ nImpl \in {"discovery", "store"}
    /\ nShape \in Shapes
    /\ nListing \in BodiesOf(nShape)
    /\ nPosts = [called |-> FALSE, posts |-> <<>>]

NextNorm == NormalizePayload

SpecNorm == InitNorm /\ [][NextNorm]_vars

InitSession ==
    /\ InitEarlyIdle
    /\ InitPoolIdle
    /\ InitMarksIdle
    /\ InitBatchIdle
    /\ InitNormIdle
    /\ sImpl \in {"sessions", "intelligence"}
    /\ sStatus = "queries_ready"
    /\ sQueries \in {[k \in 1..n |-> TRUE] : n \in 1..MaxSessionQueries}
    /\ sSources = <<>>
    /\ sResp = SessionResponse("create", 200)

NextSession ==
    \/ \E k \in 1..MaxSessionQueries, selected \in BOOLEAN : UpdateQueries(k, selected)
    \/ \E outcome \in SearchOutcomes : SearchQueries(outcome)
    \/ \E k \in 1..MaxSessionSources, selected \in BOOLEAN : UpdateSources(k, selected)
    \/ \E outcome \in AnalyzeOutcomes : AnalyzeSources(outcome)

SpecSession == InitSession /\ [][NextSession]_vars

(***************************************************************************)
(* Claims on the Reddit collection and the processed-post history          *)
(***************************************************************************)

\* C1: a listed post whose score is below min_score or whose comment count is
\* below min_comments is never among the candidates of the fetch, whatever the
\* filter configuration.
C1_LowEngagementNeverCandidate ==
    \A w \in fSeen :
        (RawPost(w).score < filters.min_score
            \/ RawPost(w).num_comments < filters.min_comments)
        => \A k \in 1..Len(curated) : curated[k].id # PostIdOf(hImpl, RawPost(w))

\* A fetch has returned candidates from listings that also carried a post with
\* an id and a score below min_score.
C1_Witness ==
    /\ fpc = "done"
    /\ curated # <<>>
    /\ \E w \in fSeen : w # 0 /\ RawPost(w).score < filters.min_score

\* C2: no candidate a fetch returns has an id the history held when the fetch
\* started, nor an id an earlier fetch of the segment returned.
C2_RefetchExcludesHandled ==
    fpc = "done" =>
        \A k \in 1..Len(curated) :
            /\ curated[k].id \notin processedIds
            /\ curated[k].id \notin handled

\* C3: once _mark_posts_processed has returned for some ids, every later
\* _load_processed_post_ids of the segment contains them.
C3_MarkedStaysLoaded ==
    ret.op = "DLoad" => marked[ret.seg] \subseteq ret.ids

\* C4: when a mark has returned, every non-empty id it was given is in the
\* segment's in-memory cache, and nothing was raised, whether the commit
\* succeeded, failed or no Firestore client exists.
C4_MarkAlwaysCaches ==
    ret.op \in {"DMark", "HMark"} =>
        /\ ~ret.raised
        /\ {i \in ret.ids : i # 0} \subseteq
              (IF ret.op = "DMark" THEN dCache[ret.seg] ELSE hCache[ret.seg])

\* A mark of a non-empty id has returned after its commit failed.
C4_Witness ==
    /\ ret.op = "DMark"
    /\ ret.commit = "fail"
    /\ \E i \in ret.ids : i # 0 /\ i \in dCache[ret.seg]

(***************************************************************************)
(* Claims on filter_high_value_posts                                       *)
(***************************************************************************)
SeqToBag(seq) ==
    LET elems == {seq[k] : k \in 1..Len(seq)}
    IN  [e \in elems |-> Cardinality({k \in 1..Len(seq) : seq[k] = e})]

C6_BatchScoresEveryPost ==
    psOp # "none" => Len(psScored) = Len(psPosts)

(***************************************************************************)
(* Claims on fetch_google_trends                                           *)
(***************************************************************************)
SignalsOf(k) == {j \in 1..Len(tTrends) : tTrends[j].query = k}
WarningsOf(k) == {j \in 1..Len(tWarnings) : tWarnings[j].keyword = k}
FailedWarningsOf(k) == {j \in WarningsOf(k) : tWarnings[j].kind = "failed"}

C8_ThreeAttemptsTwoWaits ==
    /\ \A k \in DOMAIN tLog :
          /\ Len(tLog[k]) <= 3
          /\ tLog[k] # <<>> => tSleeps[k] = SubSeq(<<2, 4>>, 1, Len(tLog[k]) - 1)
          /\ FailedWarningsOf(k) # {}
                <=> (Len(tLog[k]) = 3
                       /\ \A a \in 1..3 : tLog[k][a] \in {"429", "error"})
          /\ Cardinality(FailedWarningsOf(k)) <= 1
    /\ tpc \in {"done", "raised"} => \A k \in DOMAIN tLog : tLog[k] # <<>>

\* The fetch has returned after a first keyword that failed three times and a
\* later keyword that was answered.
C8_Witness ==
    /\ tpc = "done"
    /\ \E k \in DOMAIN tLog :
          /\ FailedWarningsOf(k) # {}
          /\ tSleeps[k] = <<2, 4>>
          /\ \E later \in DOMAIN tLog : later > k /\ SignalsOf(later) # {}

\* C8 (as the spec has it): a failure is recorded as a warning only after
\* three retries, made after waits of 2s, 4s and 8s.
C8_ThreeRetriesThreeWaits ==
    \A k \in DOMAIN tLog :
        FailedWarningsOf(k) # {} => tSleeps[k] = <<2, 4, 8>>

\* C9: when the fetch of a non-empty keyword list ends, it has raised exactly
\* when no keyword yielded data, that is when every keyword's last attempt
\* failed or was answered with a structurally empty response.
C9_FatalIffNoData ==
    (tpc \in {"done", "raised"} /\ tKeywords # <<>>) =>
        (tpc = "raised"
            <=> \A k \in DOMAIN tLog : tLog[k][Len(tLog[k])] # "data")

(***************************************************************************)
(* Claims on run_voc_discovery                                             *)
(***************************************************************************)
RunFailureWarnings ==
    SelectSeq(rWarnings, LAMBDA w : w \notin {"nokey", "nokeywords"})

DeepUpdateLow(b, o) ==
    [k \in DOMAIN b |-> IF o[k] = Absent THEN b[k] ELSE o[k]]

\* The merge a recursive descent would make of two dicts of the middle level.
DeepUpdateMid(b, o) ==
    [k \in DOMAIN b |->
        IF o[k] = Absent THEN b[k]
        ELSE IF IsDict(o[k]) /\ IsDict(b[k])
             THEN Dict(DeepUpdateLow(b[k].d, o[k].d))
             ELSE o[k]]

\* The merge that descends at every depth.
DeepMergeConfig(base, override) ==
    [k \in DOMAIN base |->
        IF override[k] = Absent THEN base[k]
        ELSE IF IsDict(override[k]) /\ IsDict(base[k])
             THEN Dict(DeepUpdateMid(base[k].d, override[k].d))
             ELSE override[k]]

\* C12: the merged configuration is the recursive merge of the override into
\* the base configuration: a dict under a dict is merged key by key at
\* every depth, a scalar or a list replaces the base value.
C12_MergeIsRecursive ==
    mpc = "merged" => mMerged = DeepMergeConfig(mBase, mOverride)

\* C13: a run with Reddit disabled and trends enabled in which every failed
\* lookup was a rate limit returns no Reddit post and one trend signal per
\* configured keyword.
C13_TrendsOnlyOneSignalPerKeyword ==
    (/\ rpc = "done"
     /\ ~rCfg.enable_reddit
     /\ rCfg.enable_trends
     /\ \A k \in 1..Len(rFailures) :
            rFailures[k] \notin {"lookup_failed", "raises_other"})
    => /\ rTop = <<>>
       /\ rRedditPosts = <<>>
       /\ Len(rTrends) = rCfg.keywords

\* C14: generate_curated_queries called with no analyzed post and no trend
\* signal returns no query and no warning and makes no model call, with or
\* without a model client.
C14_EmptyInputsReturnEmpty ==
    (qpc = "returned" /\ qCall \in {"discovery", "synthesis"}
        /\ qPosts = <<>> /\ qTrends = <<>>)
    => qResult = NoQueryResult

\* What the function bound to generate_curated_queries returns when its call
\* returns.
SynthesizerPair ==
    IF qSynth = "real"
    THEN LET r == CuratedQueriesSynthesis(qClient, qPosts, qTrends, qAnswer)
         IN  <<r.queries, r.warnings>>
    ELSE qFake

\* C18: for a request that names its segment, the generate-queries stage
\* passes segment_name to the synthesizer and answers 200 with queries the
\* synthesizer's query list, warnings the synthesizer's warnings and count
\* the number of queries.
C18_StageAnswersSynthesizerResult ==
    (qpc = "returned" /\ qCall = "stage" /\ qName /\ qConfigOk)
    => /\ "segment_name" \in StageKeywords
       /\ qResp.status = 200
       /\ qResp.queries = [shape |-> "list", first |-> SynthesizerPair[1],
                           second |-> <<>>]
       /\ qResp.has_warnings
       /\ qResp.warnings = SynthesizerPair[2]
       /\ qResp.count = Len(SynthesizerPair[1])

\* An entry of the response that names a post of the batch that has an id.
ValidEntry(it) ==
    /\ it.kind \in {"obj", "strscore"}
    /\ it.post_index >= 0 /\ it.post_index < Len(psPosts)
    /\ psPosts[it.post_index + 1] # 0

FullResponse ==
    /\ psResp.kind = "list"
    /\ Len(psResp.items) = Len(psPosts)
    /\ \A k \in 1..Len(psPosts) :
           psResp.items[k].kind = "obj" /\ psResp.items[k].post_index = k - 1

\* C16: when every post of the batch is scored, batch_prescore_posts of
\* voc_synthesis returns one post per input post, in input order, each with
\* the score of its own entry, and no warning, also for posts that share an
\* id or have none.
C16_OnePrescoredPostPerInput ==
    (psOp = "synthesis" /\ psPosts # <<>> /\ FullResponse)
    => /\ psWarnings = <<>>
       /\ Len(psScored) = Len(psPosts)
       /\ \A k \in 1..Len(psPosts) :
              /\ psScored[k].post = k
              /\ psScored[k].score = psResp.items[k].score

\* C17: an entry whose post_index is outside the batch is not dropped: the
\* post at the entry's own position is returned with the entry's score, and
\* a warning records the fallback to the loop index.
C17_OutOfRangeIndexFallsBack ==
    (psOp = "synthesis" /\ psResp.kind = "list" /\ psPosts # <<>> /\ ~psRaised)
    => \A k \in 1..Len(psResp.items) :
           (/\ k <= Len(psPosts)
            /\ psPosts[k] # 0
            /\ psResp.items[k].kind = "obj"
            /\ psResp.items[k].post_index >= Len(psPosts))
           => /\ \E j \in 1..Len(psScored) :
                     /\ psScored[j].post = k
                     /\ psScored[j].score = psResp.items[k].score
              /\ \E w \in 1..Len(psWarnings) : psWarnings[w] = "fallback"

\* C19: when the model was asked and its output is empty, no JSON or JSON of
\* the wrong shape, the enrichment returns the post without ai_analysis,
\* leaves the caller's post without one, and returns at least one warning.
C19_MalformedOutputLeavesPostUnmodified ==
    (/\ epc = "returned"
     /\ eGemini /\ eApiKey
     /\ eOutput \in {"empty", "unparsable", "list", "dict_missing_keys",
                     "dict_bad_score"})
    => /\ eResult.ai_analysis = "none"
       /\ ePost = "none"
       /\ eResult.warnings # <<>>

\* C20: every post in reddit_posts of the run's result carries an
\* ai_analysis.
C20_ReportedPostsCarryAnalysis ==
    \A k \in 1..Len(rRedditPosts) : rRedditPosts[k].ai_analysis

(***************************************************************************)
(* C21: a post whose prescore is below the threshold is rejected: it is in *)
(* the low-score list and is never among the posts handed to enrichment.   *)
(* Checked on the run: no id of reddit_posts_low_score is the id of a post *)
(* the run selected for the detailed analysis.                             *)
(***************************************************************************)
C21_LowPrescoreNeverEnriched ==
    \A k \in 1..Len(rLowScore) : \A j \in 1..Len(rTop) :
        rTop[j] # rLowScore[k].id

(***************************************************************************)
(* C22: pre_score_posts returns the scored posts in the order of the input *)
(* whatever the order in which the scoring calls complete: of two scored   *)
(* posts, the one that is earlier in the input is earlier in the output.   *)
(***************************************************************************)
C22_ScoredPostsInInputOrder ==
    wpc = "returned" =>
        \A a, b \in 1..Len(wScored) :
            a < b => wScored[a].post < wScored[b].post

\* Two posts were scored and the later one completed first.
C22_Witness ==
    /\ wpc = "returned"
    /\ \E a, b \in 1..Len(wOrder) :
        /\ a < b
        /\ wOrder[a] > wOrder[b]
        /\ wFuture[wOrder[a]] = "ok"
        /\ wFuture[wOrder[b]] = "ok"

(***************************************************************************)
(* C29: pre_score_posts accounts for every input post exactly once: a post *)
(* whose call returned is in the output once, a post whose call raised     *)
(* gives one warning and is not in the output, so scored posts plus        *)
(* warnings are as many as the input posts, and no failure keeps another   *)
(* post from being scored.                                                 *)
(***************************************************************************)
C29_EveryPostScoredOrWarned ==
    wpc = "returned" =>
        /\ Len(wScored) + Len(wWarnings) = Len(wPosts)
        /\ \A i \in 1..Len(wPosts) :
            Cardinality({k \in 1..Len(wScored) : wScored[k].post = i})
                = (IF wFuture[i] = "ok" THEN 1 ELSE 0)
        /\ Len(wWarnings)
                = Cardinality({i \in 1..Len(wPosts) : wFuture[i] # "ok"})
        /\ \A k \in 1..Len(wScored) : wScored[k].id = wPosts[wScored[k].post]

\* One call raised an unexpected exception before another returned a score.
C29_Witness ==
    /\ wpc = "returned"
    /\ \E a, b \in 1..Len(wOrder) :
        /\ a < b
        /\ wFuture[wOrder[a]] = "error"
        /\ wFuture[wOrder[b]] = "ok"

(***************************************************************************)
(* C23: concurrent marks for the same id are idempotent: after any         *)
(* interleaving of two marks that carry the same id and a load of the same *)
(* segment, the history holds that id and is what one mark leaves: the     *)
(* ids it held before and the marked id, nothing lost and nothing added.   *)
(***************************************************************************)
C23_ConcurrentMarksIdempotent ==
    AllReturned => HistoryIds = cPrior \cup MarkIds

(***************************************************************************)
(* C24: mark persists ids in batches of at most 500 writes: no commit a    *)
(* mark issues holds more than 500 documents, and the commits of a mark    *)
(* hold all its ids.                                                       *)
(***************************************************************************)
C24_CommitsOfAtMost500 ==
    bpc = "returned" /\ bClient =>
        /\ \A k \in 1..Len(bCommits) : bCommits[k] <= 500
        /\ bIds > 500 => Len(bCommits) > 1

(***************************************************************************)
(* C25: a failed request for one subreddit is not fatal: the step adds one *)
(* warning, naming that subreddit, keeps every candidate collected so far  *)
(* and goes on to the next subreddit; when the fetch is done, every post   *)
(* read from a subreddit that answered and that passes the filters is      *)
(* among the candidates.                                                   *)
(***************************************************************************)
C25_FailedSubredditIsOneWarning ==
    [][/\ fpc' = "done" =>
            \A w \in fSeen' :
                (/\ ~SkippedAsProcessed(hImpl', RawPost(w), processedIds')
                 /\ PassesEngagement(hImpl', RawPost(w), filters'))
                => PostIdOf(hImpl', RawPost(w)) \in IdsOf(curated')
       /\ fpc = "loop" /\ fWarnings' # fWarnings =>
            /\ fWarnings' = Append(fWarnings, SubredditList[fSub])
            /\ fSub' = fSub + 1
            /\ fpc' = IF fSub = Len(SubredditList) THEN "done" ELSE "loop"
            /\ Len(curated') = Len(curated)
            /\ \A k \in 1..Len(curated) :
                   Cardinality({j \in 1..Len(curated') : curated'[j] = curated[k]})
                 = Cardinality({j \in 1..Len(curated) : curated[j] = curated[k]})]_vars

\* The first subreddit failed and the second one gave a candidate.
C25_Witness ==
    /\ fpc = "done"
    /\ fWarnings = <<"smallbusiness">>
    /\ curated # <<>>

(***************************************************************************)
(* C26: the listing normalisation reads the same sequence of posts from    *)
(* each of the four response shapes that carry them: a bare array,         *)
(* {data: [...]}, {posts: [...]} and {data: {children: [{data: ...}]}}.    *)
(***************************************************************************)
C26_ShapesNormalizeAlike ==
    nPosts.called /\ nShape \in {"array", "data", "posts", "children"} =>
        nPosts.posts = nListing

(***************************************************************************)
(* C27: every post id a fetch returns as a candidate is in the segment's   *)
(* history when the fetch has returned: in the stored documents or in the  *)
(* cache of the history the fetch used.                                    *)
(***************************************************************************)
C27_CandidatesAreMarked ==
    fpc = "done" =>
        IdsOf(curated) \subseteq (store["smb"] \cup dCache["smb"] \cup hCache["smb"])

(***************************************************************************)
(* C28: the candidates one fetch returns contain no two posts with the     *)
(* same id, also when a post is in the listings of two subreddits or twice *)
(* in one listing.                                                         *)
(***************************************************************************)
C28_CandidateIdsDistinct ==
    fpc = "done" =>
        \A a, b \in 1..Len(curated) : a # b => curated[a].id # curated[b].id

(***************************************************************************)
(* C30: once a search or an analyze request on a session has returned, the *)
(* session's status is not "searching" or "analyzing": after a successful  *)
(* search it is "search_complete", after a successful analysis "complete", *)
(* after a failed search "queries_ready" and after a failed analysis       *)
(* "search_complete", the answers "No queries selected" and "No sources    *)
(* selected" included.                                                     *)
(***************************************************************************)
C30_StatusNeverLeftTransient ==
    /\ sStatus \notin {"searching", "analyzing"}
    /\ sResp.op = "search" =>
         sStatus = IF sResp.code = 200 THEN "search_complete" ELSE "queries_ready"
    /\ sResp.op = "analyze" =>
         sStatus = IF sResp.code = 200 THEN "complete" ELSE "search_complete"

====
